---- MODULE Spec2Model ----
(***************************************************************************)
(* The dependency-graph evaluator of alchemy (evaluate / apply), the       *)
(* memoization cache keyed by resource handle, the provider invocation     *)
(* with its phase, and the reconciliation of orphans (finalize).           *)
(***************************************************************************)
EXTENDS Integers, Sequences, FiniteSets, TLC

(***************************************************************************)
(* The declared graph.  A node is a resource handle, an Output, an array,  *)
(* a keyed mapping or a primitive.  MaxPaths is the number of references   *)
(* to the shared handle B that the top-level sequence "TS" holds.          *)
(***************************************************************************)
MaxPaths == 2

\* the number of runs of the program against the same state store
MaxRuns == 3

\* the number of times one filesystem provider is invoked on its target
MaxFsCalls == 2

\* the number of times the Lambda Function provider is invoked
MaxFnCalls == 2

\* the time in ms a CreateFunction call may take besides no time at all
CallLatency == 2500

\* the number of requests the static-site router answers in one behaviour
MaxRequests == 2

\* the number of times the site is deployed anew between requests
MaxDeploys == 1

\* "F" is a second handle constructed with the id of "C"
Handles == {"A", "B", "C", "D", "E", "F"}

Outputs == {"O", "OM", "OC"}

Prims == {"p1", "arg"}

Tops == {"TS", "TG", "TO", "TM"}

\* the graphs of the programs that are run several times in a row
RunTops == {"TB", "TA", "TG"}

\* the graphs that hold two distinct handles with the same id
DupTops == {"TD", "TE"}

\* the graphs whose pass is followed up to the settling of every call
EvalTops == {"TS", "TG", "TM", "TP"}

Nodes == Handles \cup Outputs \cup Prims \cup Tops \cup RunTops \cup DupTops \cup EvalTops

N(kind, id, items, keys, fn, ret) ==
    [kind |-> kind, id |-> id, items |-> items, keys |-> keys, fn |-> fn, ret |-> ret]

\* "A" takes a primitive, "B" depends on "A", "C" is independent,
\* "D" takes "A" and the Output "O" (a chain whose transformation returns the
\* handle "E"), "OM" maps the value of "B" to a primitive, and the
\* transformation of "OC" returns the Output "OM".
NodeDef(n) ==
    CASE n = "p1" -> N("prim", "v1", <<>>, <<>>, "", "")
      [] n = "arg" -> N("prim", "", <<>>, <<>>, "", "")
      [] n = "A" -> N("res", "a", <<"p1">>, <<>>, "", "")
      [] n = "B" -> N("res", "b", <<"A">>, <<>>, "", "")
      [] n = "C" -> N("res", "c", <<>>, <<>>, "", "")
      [] n = "E" -> N("res", "e", <<>>, <<>>, "", "")
      [] n = "D" -> N("res", "d", <<"A", "O">>, <<>>, "", "")
      [] n = "F" -> N("res", "c", <<"A">>, <<>>, "", "")
      [] n = "O" -> N("out", "", <<"A">>, <<>>, "chain", "E")
      [] n = "OM" -> N("out", "", <<"B">>, <<>>, "map", "arg")
      [] n = "OC" -> N("out", "", <<"p1">>, <<>>, "chain", "OM")
      [] n = "TS" -> N("arr", "", [i \in 1..MaxPaths |-> "B"] \o <<"C">>, <<>>, "", "")
      [] n = "TG" -> N("arr", "", <<"A", "B", "C">>, <<>>, "", "")
      [] n = "TB" -> N("arr", "", <<"B">>, <<>>, "", "")
      [] n = "TA" -> N("arr", "", <<"A">>, <<>>, "", "")
      [] n = "TD" -> N("arr", "", <<"C", "F", "C">>, <<>>, "", "")
      [] n = "TE" -> N("arr", "", <<"F", "B", "C", "F">>, <<>>, "", "")
      [] n = "TO" -> N("obj", "", <<"D", "D">>, <<"x", "y">>, "", "")
      [] n = "TP" -> N("arr", "", <<"D", "E">>, <<>>, "", "")
      [] n = "TM" -> N("obj", "", <<"OC", "C", "p1">>, <<"k", "l", "m">>, "", "")

isResource(n) == NodeDef(n).kind = "res"

ResourceID(h) == NodeDef(h).id

Input(h) == NodeDef(h).items

IDs == {ResourceID(h) : h \in Handles}

(***************************************************************************)
(* Values.  Every value is a record of one shape so that any two values    *)
(* can be compared.                                                        *)
(***************************************************************************)
Val(t, v, n, items, keys) == [t |-> t, v |-> v, n |-> n, items |-> items, keys |-> keys]

PrimVal(v) == Val("prim", v, 0, <<>>, <<>>)

\* what the provider of handle h returns on its n-th invocation in the pass
ProviderResult(h, n) == Val("res", ResourceID(h), n, <<>>, <<>>)

\* the value a "map" transformation computes from the parent's value
Mapped(o, arg) == Val("map", o, 0, <<arg>>, <<>>)

ArrVal(vals) == Val("arr", "", 0, vals, <<>>)

ObjVal(keys, vals) == Val("obj", "", 0, vals, keys)

Evaluated(value, deps) == [value |-> value, deps |-> deps]

RECURSIVE Flat(_)
Flat(ss) == IF ss = <<>> THEN <<>> ELSE Head(ss) \o Flat(Tail(ss))

Range(s) == {s[i] : i \in DOMAIN s}

RECURSIVE Dedup(_)
Dedup(s) ==
    IF s = <<>> THEN <<>>
    ELSE LET r == Dedup(SubSeq(s, 1, Len(s) - 1))
             x == s[Len(s)]
         IN IF x \in Range(r) THEN r ELSE Append(r, x)

VARIABLES top, fails, frames, cache, invoked, calls, completion, fnCalls, records, prior, stage,
          deleting, deleted, failed, run, prev, fsys, zoneTest, lambda, role, router, tsfile

vars == <<top, fails, frames, cache, invoked, calls, completion, fnCalls, records, prior, stage,
          deleting, deleted, failed, run, prev, fsys, zoneTest, lambda, role, router, tsfile>>

\* the providers and the test that are modelled on their own
ext == <<fsys, zoneTest, lambda, role, router, tsfile>>

\* what the evaluator never writes: the declared graph, the environment, the
\* reconciler's state and the filesystem provider under invocation
env == <<top, fails, prior, stage, deleting, deleted, failed, run, prev, ext>>

NoVal == Val("none", "", 0, <<>>, <<>>)

NoRes == Evaluated(NoVal, <<>>)

Frame(node, par, slot, pc, st, res) ==
    [node |-> node, par |-> par, slot |-> slot, pc |-> pc, st |-> st,
     res |-> res, deps |-> <<>>, n |-> 0, err |-> "", from |-> IF pc = "done" THEN "prim" ELSE ""]

(***************************************************************************)
(* A call of evaluate runs synchronously up to its first await: it calls   *)
(* evaluate on every input (item, entry, parent) before it suspends, and   *)
(* the primitive case returns at once.  Spawn(fs, n, par, slot, arg) is    *)
(* the frames after the call evaluate(n) made by frame par; arg is the     *)
(* value a "map" transformation computed its primitive from.               *)
(***************************************************************************)
RECURSIVE Spawn(_, _, _, _, _), SpawnAll(_, _, _, _)

Spawn(fs, n, par, slot, arg) ==
    LET me == Len(fs) + 1
        d == NodeDef(n)
    IN CASE d.kind = "prim" ->
              Append(fs, Frame(n, par, slot, "done", "ok",
                               Evaluated(IF n = "arg" THEN arg ELSE PrimVal(d.id), <<>>)))
         [] d.kind = "out" ->
              Spawn(Append(fs, Frame(n, par, slot, "parent", "pending", NoRes)),
                    d.items[1], me, 1, NoVal)
         [] OTHER ->
              SpawnAll(Append(fs, Frame(n, par, slot, "inputs", "pending", NoRes)),
                       d.items, me, 1)

SpawnAll(fs, items, par, i) ==
    IF i > Len(items) THEN fs
    ELSE SpawnAll(Spawn(fs, items[i], par, i, NoVal), items, par, i + 1)

Fids == DOMAIN frames

Child(f, slot) == CHOOSE c \in Fids : frames[c].par = f /\ frames[c].slot = slot

Children(f) == {c \in Fids : frames[c].par = f}

\* the results of the awaited evaluate calls of frame f, in call order
evaluated(f) ==
    [i \in 1..Len(NodeDef(frames[f].node).items) |-> frames[Child(f, i)].res]

\* mutant: Promise.allSettled, a rejected child counts as resolved
AllResolvedSettled(f) == \A c \in Children(f) : frames[c].st # "pending"

\* Promise.all over the children has resolved: every one of them resolved
AllResolved(f) == \A c \in Children(f) : frames[c].st = "ok"

\* frame f settles.  A rejection reaches the Promise.all its caller awaits:
\* Promise.all rejects with the reason of the first of its promises to
\* reject, whatever rejects later, so the reason is kept in the caller's frame
\* until the caller resumes.
Settle(f, st, res, err) ==
    LET p == frames[f].par
        s == [frames EXCEPT ![f].pc = "done", ![f].from = frames[f].pc, ![f].st = st,
                            ![f].res = res, ![f].err = err]
    IN IF st = "err" /\ p # 0 /\ frames[p].pc = "inputs" /\ frames[p].err = ""
       THEN [s EXCEPT ![p].err = err]
       ELSE s

(***************************************************************************)
(* The resource case of evaluate.                                          *)
(***************************************************************************)
\* mutant: the cache is never consulted
CacheHasNever(h) == FALSE

\* cache.has(resource)
CacheHas(h) == cache[h].st # "absent"

\* new Set(evaluated.flatMap((input) => input.deps))
ResourceDeps(ev) == Dedup(Flat([i \in DOMAIN ev |-> ev[i].deps]))

\* mutant: the input values are passed last input first
InputValuesReversed(ev) == [i \in DOMAIN ev |-> ev[Len(ev) + 1 - i].value]

\* evaluated.map((input) => input.value)
InputValues(ev) == [i \in DOMAIN ev |-> ev[i].value]

\* mutant: the resource's own identity is left out
ResolvedDepsNoSelf(h, deps) == deps

\* [resourceID, ...deps]
ResolvedDeps(h, deps) == <<ResourceID(h)>> \o deps

\* the phase the provider operation runs in: decided from the persisted record
Recorded(id) == \E r \in records : r.id = id

Phase(id) == IF Recorded(id) THEN "update" ELSE "create"

\* the record written after a successful provider invocation
Persist(id, deps) == {r \in records : r.id # id} \cup {[id |-> id, deps |-> deps]}

\* mutant: the inputs are not awaited
InputsEvaluatedNoAwait(f) == TRUE

\* mutant: rejected inputs count as evaluated (Promise.allSettled)
InputsEvaluatedAllSettled(f) == \A c \in Children(f) : frames[c].st # "pending"

\* await Promise.all(resource[Input].map(evaluate)) has resolved
InputsEvaluated(f) == AllResolved(f)

\* the cache already holds the handle: return await cache.get(resource)
CacheHit(f) ==
    LET h == frames[f].node
    IN /\ stage = "eval"
       /\ frames[f].pc = "inputs"
       /\ isResource(h)
       /\ InputsEvaluated(f)
       /\ CacheHas(h)
       /\ frames' = [frames EXCEPT ![f].pc = "cacheGet"]
       /\ UNCHANGED <<env, cache, invoked, calls, completion, fnCalls, records>>

\* mutant: the pending promise is not set before the provider is awaited
InvokeNoEagerSet(f) ==
    LET h == frames[f].node
        ev == evaluated(f)
        deps == ResourceDeps(ev)
    IN /\ stage = "eval"
       /\ frames[f].pc = "inputs"
       /\ isResource(h)
       /\ InputsEvaluated(f)
       /\ ~CacheHas(h)
       /\ invoked' = [invoked EXCEPT ![h] = @ + 1]
       /\ calls' = calls \cup {[handle |-> h, id |-> ResourceID(h), phase |-> Phase(ResourceID(h)),
                                deps |-> deps, inputs |-> InputValues(ev)]}
       /\ frames' = [frames EXCEPT ![f].pc = "provider", ![f].deps = deps, ![f].n = invoked[h] + 1]
       /\ UNCHANGED <<env, cache, completion, fnCalls, records>>

\* the cache does not hold the handle: set the pending promise, then call
\* resource[Provider].update(resource, deps, inputs) and await it
Invoke(f) ==
    LET h == frames[f].node
        ev == evaluated(f)
        deps == ResourceDeps(ev)
    IN /\ stage = "eval"
       /\ frames[f].pc = "inputs"
       /\ isResource(h)
       /\ InputsEvaluated(f)
       /\ ~CacheHas(h)
       /\ cache' = [cache EXCEPT ![h] = [st |-> "pending", res |-> NoRes, err |-> ""]]
       /\ invoked' = [invoked EXCEPT ![h] = @ + 1]
       /\ calls' = calls \cup {[handle |-> h, id |-> ResourceID(h), phase |-> Phase(ResourceID(h)),
                                deps |-> deps, inputs |-> InputValues(ev)]}
       /\ frames' = [frames EXCEPT ![f].pc = "provider", ![f].deps = deps, ![f].n = invoked[h] + 1]
       /\ UNCHANGED <<env, completion, fnCalls, records>>

\* the provider operation returned: resolve(new Evaluated(result, [resourceID, ...deps]))
ProviderResolve(f) ==
    LET h == frames[f].node
        r == Evaluated(ProviderResult(h, frames[f].n), ResolvedDeps(h, frames[f].deps))
    IN /\ stage = "eval"
       /\ frames[f].pc = "provider"
       /\ h \notin fails
       /\ cache' = [cache EXCEPT ![h] = [st |-> "ok", res |-> r, err |-> ""]]
       /\ records' = Persist(ResourceID(h), frames[f].deps)
       /\ frames' = Settle(f, "ok", r, "")
       /\ completion' = Append(completion, h)
       /\ UNCHANGED <<env, invoked, calls, fnCalls>>

\* mutant: the rejected entry is evicted from the cache
ProviderRejectEvict(f) ==
    LET h == frames[f].node
    IN /\ stage = "eval"
       /\ frames[f].pc = "provider"
       /\ h \in fails
       /\ cache' = [cache EXCEPT ![h] = [st |-> "absent", res |-> NoRes, err |-> ""]]
       /\ frames' = Settle(f, "err", NoRes, h)
       /\ UNCHANGED <<env, invoked, calls, completion, fnCalls, records>>

\* mutant: a record is written although the provider operation threw
ProviderRejectPersist(f) ==
    LET h == frames[f].node
    IN /\ stage = "eval"
       /\ frames[f].pc = "provider"
       /\ h \in fails
       /\ cache' = [cache EXCEPT ![h] = [st |-> "err", res |-> NoRes, err |-> h]]
       /\ records' = Persist(ResourceID(h), frames[f].deps)
       /\ frames' = Settle(f, "err", NoRes, h)
       /\ UNCHANGED <<env, invoked, calls, completion, fnCalls>>

\* the provider operation threw: reject(error)
ProviderReject(f) ==
    LET h == frames[f].node
    IN /\ stage = "eval"
       /\ frames[f].pc = "provider"
       /\ h \in fails
       /\ cache' = [cache EXCEPT ![h] = [st |-> "err", res |-> NoRes, err |-> h]]
       /\ frames' = Settle(f, "err", NoRes, h)
       /\ UNCHANGED <<env, invoked, calls, completion, fnCalls, records>>

\* mutant: a reference waiting on a cache entry is resumed only when the
\* entry resolves, never when it rejects
CacheGetResolvedOnly(f) ==
    LET h == frames[f].node
    IN /\ stage = "eval"
       /\ frames[f].pc = "cacheGet"
       /\ cache[h].st = "ok"
       /\ frames' = Settle(f, cache[h].st, cache[h].res, cache[h].err)
       /\ UNCHANGED <<env, cache, invoked, calls, completion, fnCalls, records>>

\* await cache.get(resource) settles as the cached promise does
CacheGet(f) ==
    LET h == frames[f].node
    IN /\ stage = "eval"
       /\ frames[f].pc = "cacheGet"
       /\ cache[h].st \in {"ok", "err"}
       /\ frames' = Settle(f, cache[h].st, cache[h].res, cache[h].err)
       /\ UNCHANGED <<env, cache, invoked, calls, completion, fnCalls, records>>

\* mutant: a rejection cancels the evaluations still in flight below the frame
RECURSIVE Below(_, _)
Below(c, f) == c # 0 /\ (frames[c].par = f \/ Below(frames[c].par, f))

RejectAllCancel(f) ==
    /\ stage = "eval"
    /\ frames[f].pc = "inputs"
    /\ \E c \in Children(f) :
          /\ frames[c].st = "err"
          /\ frames' = [g \in Fids |->
                          IF g = f \/ (Below(g, f) /\ frames[g].pc # "done")
                          THEN [frames[g] EXCEPT !.pc = "done", !.from = frames[g].pc,
                                                 !.st = "err", !.err = frames[c].err]
                          ELSE frames[g]]
    /\ UNCHANGED <<env, cache, invoked, calls, completion, fnCalls, records>>

\* mutant: Promise.all rejects with the reason of any rejected evaluation
RejectAllAny(f) ==
    /\ stage = "eval"
    /\ frames[f].pc = "inputs"
    /\ \E c \in Children(f) :
          /\ frames[c].st = "err"
          /\ frames' = Settle(f, "err", NoRes, frames[c].err)
    /\ UNCHANGED <<env, cache, invoked, calls, completion, fnCalls, records>>

\* Promise.all rejects as soon as one of the awaited evaluations rejects
\* (the inputs of a resource, the items of an array, the entries of a mapping)
RejectAll(f) ==
    /\ stage = "eval"
    /\ frames[f].pc = "inputs"
    /\ frames[f].err # ""
    /\ frames' = Settle(f, "err", NoRes, frames[f].err)
    /\ UNCHANGED <<env, cache, invoked, calls, completion, fnCalls, records>>

(***************************************************************************)
(* The array and keyed-mapping cases of evaluate.                          *)
(***************************************************************************)
\* mutant: the values are collected last element first
ArrayValuesReversed(ev) == ArrVal([i \in DOMAIN ev |-> ev[Len(ev) + 1 - i].value])

\* evaluatedItems.map((e) => e.value)
ArrayValues(ev) == ArrVal([i \in DOMAIN ev |-> ev[i].value])

\* evaluatedItems.flatMap((e) => e.deps)
ArrayDeps(ev) == Flat([i \in DOMAIN ev |-> ev[i].deps])

EvalArray(f) ==
    /\ stage = "eval"
    /\ frames[f].pc = "inputs"
    /\ NodeDef(frames[f].node).kind = "arr"
    /\ AllResolved(f)
    /\ frames' = Settle(f, "ok", Evaluated(ArrayValues(evaluated(f)), ArrayDeps(evaluated(f))), "")
    /\ UNCHANGED <<env, cache, invoked, calls, completion, fnCalls, records>>

\* mutant: the values are paired with the keys in reverse order
ObjectValuesReversed(keys, ev) == ObjVal(keys, [i \in DOMAIN ev |-> ev[Len(ev) + 1 - i].value])

\* Object.fromEntries(evaluatedEntries.map(([key, evaluated]) => [key, evaluated.value]))
ObjectValues(keys, ev) == ObjVal(keys, [i \in DOMAIN ev |-> ev[i].value])

\* evaluatedEntries.flatMap(([_, evaluated]) => evaluated.deps)
ObjectDeps(ev) == Flat([i \in DOMAIN ev |-> ev[i].deps])

EvalObject(f) ==
    /\ stage = "eval"
    /\ frames[f].pc = "inputs"
    /\ NodeDef(frames[f].node).kind = "obj"
    /\ AllResolved(f)
    /\ frames' = Settle(f, "ok",
                        Evaluated(ObjectValues(NodeDef(frames[f].node).keys, evaluated(f)),
                                  ObjectDeps(evaluated(f))), "")
    /\ UNCHANGED <<env, cache, invoked, calls, completion, fnCalls, records>>

(***************************************************************************)
(* The Output case of evaluate.                                            *)
(***************************************************************************)
\* inside.fn(parent.value): the node the transformation returns, and (for a
\* "map") the primitive it computed
FnRet(o) == NodeDef(o).ret

FnArg(o, value) == IF NodeDef(o).fn = "map" THEN Mapped(o, value) ELSE NoVal

\* mutant: the transformation runs without waiting for the parent
ParentResolvedSpeculative(f) == TRUE

\* const parent = await evaluate(inside.parent) has resolved
ParentResolved(f) == frames[Child(f, 1)].st = "ok"

\* [...parent.deps, ...evaluated.deps]
OutputDeps(parent, ev) == parent.deps \o ev.deps

\* mutant: the transformation's result is memoized per Output node, fn is
\* applied on the first evaluation only
OutputApplyMemoized(f) ==
    LET o == frames[f].node
        parent == frames[Child(f, 1)].res
    IN /\ stage = "eval"
       /\ frames[f].pc = "parent"
       /\ ParentResolved(f)
       /\ fnCalls' = [fnCalls EXCEPT ![o] = IF @ = 0 THEN 1 ELSE @]
       /\ frames' = Spawn([frames EXCEPT ![f].pc = "ret"], FnRet(o), f, 2, FnArg(o, parent.value))
       /\ UNCHANGED <<env, cache, invoked, calls, completion, records>>

\* the parent resolved: apply fn to its value and call evaluate(ret)
OutputApply(f) ==
    LET o == frames[f].node
        parent == frames[Child(f, 1)].res
    IN /\ stage = "eval"
       /\ frames[f].pc = "parent"
       /\ ParentResolved(f)
       /\ fnCalls' = [fnCalls EXCEPT ![o] = @ + 1]
       /\ frames' = Spawn([frames EXCEPT ![f].pc = "ret"], FnRet(o), f, 2, FnArg(o, parent.value))
       /\ UNCHANGED <<env, cache, invoked, calls, completion, records>>

\* await evaluate(inside.parent) threw
OutputParentRejected(f) ==
    /\ stage = "eval"
    /\ frames[f].pc = "parent"
    /\ frames[Child(f, 1)].st = "err"
    /\ frames' = Settle(f, "err", NoRes, frames[Child(f, 1)].err)
    /\ UNCHANGED <<env, cache, invoked, calls, completion, fnCalls, records>>

\* await evaluate(ret) settled
OutputReturn(f) ==
    LET parent == frames[Child(f, 1)].res
        ev == frames[Child(f, 2)]
    IN /\ stage = "eval"
       /\ frames[f].pc = "ret"
       /\ ev.st \in {"ok", "err"}
       /\ frames' = IF ev.st = "ok"
                    THEN Settle(f, "ok", Evaluated(ev.res.value, OutputDeps(parent, ev.res)), "")
                    ELSE Settle(f, "err", NoRes, ev.err)
       /\ UNCHANGED <<env, cache, invoked, calls, completion, fnCalls, records>>

(***************************************************************************)
(* Reconciliation: finalize deletes the orphans, the ids recorded by an    *)
(* earlier run that the top-level evaluation of this run did not touch.    *)
(***************************************************************************)
RecordIds(rs) == {r.id : r \in rs}

\* the dependency set collected from the top-level evaluation
touchedIds == Range(frames[1].res.deps)

orphans == RecordIds(prior) \ touchedIds

RecordOf(id) == CHOOSE r \in prior : r.id = id

\* the orphans whose recorded dependency set names id
Dependents(id) == {o \in orphans : id \in Range(RecordOf(o).deps)}

\* the orphans whose delete has completed, successfully or not
Attempted == deleted \cup failed

\* the orphans whose delete has been started
Started == deleting \cup Attempted

\* the top-level evaluation resolved: finalize starts
Finalize ==
    /\ stage = "eval"
    /\ frames[1].st = "ok"
    /\ stage' = "finalize"
    /\ UNCHANGED <<ext, top, fails, prior, deleting, deleted, failed, run, prev, frames, cache, invoked, calls,
                 completion, fnCalls, records>>

\* mutant: the recorded dependency sets are not consulted
DeleteOrphanAnyOrder(id) ==
    /\ stage = "finalize"
    /\ id \in orphans \ Started
    /\ calls' = calls \cup {[handle |-> "", id |-> id, phase |-> "delete",
                             deps |-> RecordOf(id).deps, inputs |-> <<>>]}
    /\ deleting' = deleting \cup {id}
    /\ UNCHANGED <<ext, top, fails, prior, stage, deleted, failed, run, prev, frames, cache, invoked,
                   completion, fnCalls, records>>

\* the provider operation of an orphan is invoked with phase "delete" from its
\* persisted record, once the delete of every orphan that depends on it has
\* completed
DeleteOrphan(id) ==
    /\ stage = "finalize"
    /\ id \in orphans \ Started
    /\ Dependents(id) \subseteq Attempted
    /\ calls' = calls \cup {[handle |-> "", id |-> id, phase |-> "delete",
                             deps |-> RecordOf(id).deps, inputs |-> <<>>]}
    /\ deleting' = deleting \cup {id}
    /\ UNCHANGED <<ext, top, fails, prior, stage, deleted, failed, run, prev, frames, cache, invoked,
                   completion, fnCalls, records>>

\* mutant: the record is removed whether or not the delete succeeded
DeleteSettleDropRecord(id, ok) ==
    /\ stage = "finalize"
    /\ id \in deleting
    /\ deleting' = deleting \ {id}
    /\ records' = {r \in records : r.id # id}
    /\ IF ok
       THEN deleted' = deleted \cup {id} /\ UNCHANGED failed
       ELSE failed' = failed \cup {id} /\ UNCHANGED deleted
    /\ UNCHANGED <<ext, top, fails, prior, stage, run, prev, frames, cache, invoked, calls, completion,
                   fnCalls>>

\* mutant: the first failed delete ends finalize
DeleteSettleAbort(id, ok) ==
    /\ stage = "finalize"
    /\ id \in deleting
    /\ deleting' = deleting \ {id}
    /\ IF ok
       THEN /\ records' = {r \in records : r.id # id}
            /\ deleted' = deleted \cup {id}
            /\ UNCHANGED <<failed, stage>>
       ELSE /\ failed' = failed \cup {id}
            /\ stage' = "done"
            /\ UNCHANGED <<records, deleted>>
    /\ UNCHANGED <<ext, top, fails, prior, run, prev, frames, cache, invoked, calls, completion, fnCalls>>

\* the delete of an orphan completes: a successful delete removes the record,
\* a failed one is collected and leaves the record in place
DeleteSettle(id, ok) ==
    /\ stage = "finalize"
    /\ id \in deleting
    /\ deleting' = deleting \ {id}
    /\ IF ok
       THEN /\ records' = {r \in records : r.id # id}
            /\ deleted' = deleted \cup {id}
            /\ UNCHANGED failed
       ELSE /\ failed' = failed \cup {id}
            /\ UNCHANGED <<records, deleted>>
    /\ UNCHANGED <<ext, top, fails, prior, stage, run, prev, frames, cache, invoked, calls, completion,
                   fnCalls>>

\* every orphan was attempted: finalize returns (reporting the failed deletes)
FinalizeDone ==
    /\ stage = "finalize"
    /\ orphans \subseteq Attempted
    /\ stage' = "done"
    /\ UNCHANGED <<ext, top, fails, prior, deleting, deleted, failed, run, prev, frames, cache, invoked, calls,
                 completion, fnCalls, records>>

(***************************************************************************)
(* The start of a run: the program declares its graph and calls            *)
(* apply(top); the state store holds the records of an earlier run.        *)
(***************************************************************************)
\* the dependency set a successful earlier run recorded for a handle
RECURSIVE DeclaredDeps(_)
DeclaredDeps(n) ==
    LET d == NodeDef(n)
        items == Flat([i \in DOMAIN d.items |-> DeclaredDeps(d.items[i])])
    IN CASE d.kind = "res" -> <<d.id>> \o Dedup(items)
         [] d.kind = "out" -> items \o (IF d.fn = "chain" THEN DeclaredDeps(d.ret) ELSE <<>>)
         [] OTHER -> items

PriorRecord(h) == [id |-> ResourceID(h), deps |-> Tail(DeclaredDeps(h))]

\* what a run remembers of the run before it: its graph, the ids whose create
\* failed in it, the ids it deleted, the ids whose delete failed in it, and
\* whether it finalized
RunSummary(t, fc, del, fd, fin) ==
    [top |-> t, failedCreate |-> fc, deleted |-> del, failedDelete |-> fd, finalized |-> fin]

NoRun == RunSummary("", {}, {}, {}, FALSE)

\* one filesystem-backed provider and the target it manages: the provider's
\* kind, the state of the target and of its parent directory on disk,
\* props.delete === false, this.phase, the position in the provider function,
\* the error code the removal call returned, the error the provider threw and
\* the number of invocations so far
FsState(k, t, par, keep, ph, pc, rem, err, n) ==
    [kind |-> k, target |-> t, parent |-> par, keep |-> keep, phase |-> ph, pc |-> pc,
     removal |-> rem, error |-> err, n |-> n]

NoFs == FsState("", "absent", "ok", FALSE, "", "idle", "", "", 0)

\* the test "create, update, and delete zone with all settings": its position,
\* whether the variable zone is assigned, whether the zone exists at the
\* provider, whether the scope holds its record, the phases the Zone provider
\* was invoked with, the step whose error is being thrown ("" for none), and
\* how destroy ended
ZoneTestState(pc, zone, exists, recorded, phases, thrown, destroyed) ==
    [pc |-> pc, zone |-> zone, exists |-> exists, recorded |-> recorded, phases |-> phases,
     thrown |-> thrown, destroyed |-> destroyed]

NoZoneTest == ZoneTestState("idle", FALSE, FALSE, FALSE, <<>>, "", "")

\* an error thrown by client.send: its name and whether its message
\* contains 'cannot be assumed by Lambda'
SdkError(name, assumable) == [name |-> name, assumable |-> assumable]

NoError == SdkError("", FALSE)

\* the function configuration as GetFunctionConfiguration reports it
Config(st, lus) == [State |-> st, LastUpdateStatus |-> lus]

NoConfig == Config("", "")

\* the Lambda Function provider and the function at AWS: this.phase, the
\* position in the provider function, whether the function exists and its
\* configuration, the configuration the provider observed last, where
\* waitForFunctionStabilization returns to, the commands the invocation has
\* issued, the error of the last command, the error the provider threw,
\* Date.now() - startTime, delay, the delays slept so far, whether the
\* existence check found the function, the number of invocations and the
\* number of functions the provider has created
LambdaState(ph, pc, exists, config, n, created) ==
    [phase |-> ph, pc |-> pc, exists |-> exists, config |-> config, observed |-> NoConfig,
     ret |-> "", cmds |-> <<>>, last |-> NoError, error |-> "", elapsed |-> 0, delay |-> 0,
     sleeps |-> <<>>, found |-> FALSE, n |-> n, created |-> created]

NoLambda == LambdaState("", "idle", FALSE, NoConfig, 0, 0)

\* the alchemy_stage and alchemy_resource tags of an IAM role
Tags(stg, resource) == [alchemy_stage |-> stg, alchemy_resource |-> resource]

NoTags == Tags("", "")

\* the Role provider and the role at IAM: ctx.event, the position in the
\* provider function, the index of the policy loop, props.policies,
\* ctx.output.policies, the commands the invocation has issued, the error the
\* provider threw, whether CreateRole reported EntityAlreadyExists, the tags
\* the ownership check read, the names of the errors ignore swallowed,
\* role.Role as GetRole returned it compared with props, and whether the
\* role exists at IAM and with which tags
RoleState(ev, pc, i, cur, prv, exists, tags) ==
    [event |-> ev, pc |-> pc, i |-> i, policies |-> cur, previous |-> prv, cmds |-> <<>>,
     error |-> "", existed |-> FALSE, roleTags |-> NoTags, ignored |-> 0,
     assumeDiffers |-> FALSE, descDiffers |-> FALSE, exists |-> exists, tags |-> tags]

NoRole == RoleState("", "idle", 0, <<>>, <<>>, FALSE, NoTags)

\* an etag value: the entry of the asset manifest for a file of the
\* deployment numbered v
Etag(v) == [tag |-> "etag", v |-> v]

\* headers.get("etag") of a response without the header
Null == [tag |-> "null", v |-> 0]

\* __ASSET_MANIFEST__[filePath] for a path the manifest does not hold
Undefined == [tag |-> "undefined", v |-> 0]

\* a response: status, etag header, the KV key the body was read from (<<>>
\* for the plain 'Page Not Found') and whether fetch returned it from the cache
Response(status, etag, key, fromCache) ==
    [status |-> status, etag |-> etag, key |-> key, fromCache |-> fromCache]

NoResponse == Response(0, Null, <<>>, FALSE)

\* the static-site router and its surroundings: the position in fetch, the
\* number of requests and deployments so far, the keys in env.ASSETS, the
\* paths in __ASSET_MANIFEST__, env.ERROR_PAGE (<<>>: not configured),
\* caches.default by url.pathname, and for the request under way
\* url.pathname, request.method, filePath, what cache.match returned, the
\* keys read from KV in order, and the response returned
RouterState(kv, manifest, errorPage) ==
    [pc |-> "idle", n |-> 0, version |-> 1, kv |-> kv, manifest |-> manifest,
     ERROR_PAGE |-> errorPage, cache |-> <<>>, url |-> <<>>, method |-> "", filePath |-> <<>>,
     r |-> NoResponse, tried |-> <<>>, resp |-> NoResponse]

NoRouter == RouterState({}, {}, <<>>)

\* the TypeScriptFile provider: this.phase, the position in the provider
\* function, whether props.path differs from this.props.path, the texts
\* generateText returned, the code extracted, the error thrown, and whether
\* the target file has been written and the file at the previous path removed
TsFileState(ph, pc, moved) ==
    [phase |-> ph, pc |-> pc, moved |-> moved, texts |-> <<>>, calls |-> 0, code |-> <<>>,
     error |-> "", written |-> FALSE, unlinked |-> FALSE]

NoTsFile == TsFileState("", "idle", FALSE)

\* the handles an earlier run may have recorded
PriorSets == {{}, {"A", "B"}, {"A", "B", "C"}, {"A", "E", "D"}}

\* the handles whose provider operation fails in this run
FailSets == {{}, {"C"}, {"A"}, {"E"}, {"B", "C"}}

Init ==
    /\ top \in Tops
    /\ fails \in FailSets
    /\ prior \in {{PriorRecord(h) : h \in P} : P \in PriorSets}
    /\ records = prior
    /\ frames = Spawn(<<>>, top, 0, 1, NoVal)
    /\ cache = [h \in Handles |-> [st |-> "absent", res |-> NoRes, err |-> ""]]
    /\ invoked = [h \in Handles |-> 0]
    /\ calls = {}
    /\ completion = <<>>
    /\ fnCalls = [o \in Outputs |-> 0]
    /\ stage = "eval"
    /\ deleting = {}
    /\ deleted = {}
    /\ failed = {}
    /\ run = 1
    /\ prev = NoRun
    /\ fsys = NoFs
    /\ zoneTest = NoZoneTest
    /\ lambda = NoLambda
    /\ role = NoRole
    /\ router = NoRouter
    /\ tsfile = NoTsFile

Next ==
    \/ \E f \in Fids : CacheHit(f)
    \/ \E f \in Fids : Invoke(f)
    \/ \E f \in Fids : ProviderResolve(f)
    \/ \E f \in Fids : ProviderReject(f)
    \/ \E f \in Fids : CacheGet(f)
    \/ \E f \in Fids : RejectAll(f)
    \/ \E f \in Fids : EvalArray(f)
    \/ \E f \in Fids : EvalObject(f)
    \/ \E f \in Fids : OutputApply(f)
    \/ \E f \in Fids : OutputParentRejected(f)
    \/ \E f \in Fids : OutputReturn(f)
    \/ Finalize
    \/ \E id \in IDs : DeleteOrphan(id)
    \/ \E id \in IDs, ok \in BOOLEAN : DeleteSettle(id, ok)
    \/ FinalizeDone

Spec == Init /\ [][Next]_vars

(***************************************************************************)
(* Several runs against the same state store.  A run ends when finalize    *)
(* returned, or when the top-level evaluation was rejected and the calls   *)
(* in flight have settled; the next run is a new process: a new graph of   *)
(* handles, an empty cache, and the records the run before it left.        *)
(***************************************************************************)
RunFailSets == {{}, {"B"}, {"C"}}

RunEnded ==
    \/ stage = "done"
    \/ frames[1].st = "err" /\ \A f \in Fids : frames[f].pc = "done"

\* the ids whose provider operation failed in phase create in this run
failedCreate ==
    {ResourceID(h) : h \in {g \in Handles :
        cache[g].st = "err" /\ \E c \in calls : c.handle = g /\ c.phase = "create"}}

StartRun(t, f, p) ==
    /\ top = t
    /\ fails = f
    /\ prior = p
    /\ records = p
    /\ frames = Spawn(<<>>, t, 0, 1, NoVal)
    /\ cache = [h \in Handles |-> [st |-> "absent", res |-> NoRes, err |-> ""]]
    /\ invoked = [h \in Handles |-> 0]
    /\ calls = {}
    /\ completion = <<>>
    /\ fnCalls = [o \in Outputs |-> 0]
    /\ stage = "eval"
    /\ deleting = {}
    /\ deleted = {}
    /\ failed = {}

InitRuns ==
    /\ \E t \in RunTops, f \in RunFailSets : StartRun(t, f, {})
    /\ fsys = NoFs
    /\ zoneTest = NoZoneTest
    /\ lambda = NoLambda
    /\ role = NoRole
    /\ router = NoRouter
    /\ tsfile = NoTsFile
    /\ run = 1
    /\ prev = NoRun

NextRun ==
    /\ run < MaxRuns
    /\ RunEnded
    /\ run' = run + 1
    /\ prev' = RunSummary(top, failedCreate, deleted, failed, stage = "done")
    /\ \E t \in RunTops, f \in RunFailSets :
          /\ top' = t
          /\ fails' = f
          /\ frames' = Spawn(<<>>, t, 0, 1, NoVal)
    /\ prior' = records
    /\ cache' = [h \in Handles |-> [st |-> "absent", res |-> NoRes, err |-> ""]]
    /\ invoked' = [h \in Handles |-> 0]
    /\ calls' = {}
    /\ completion' = <<>>
    /\ fnCalls' = [o \in Outputs |-> 0]
    /\ stage' = "eval"
    /\ deleting' = {}
    /\ deleted' = {}
    /\ failed' = {}
    /\ UNCHANGED <<records, ext>>

NextRuns ==
    \/ \E f \in Fids : CacheHit(f)
    \/ \E f \in Fids : Invoke(f)
    \/ \E f \in Fids : ProviderResolve(f)
    \/ \E f \in Fids : ProviderReject(f)
    \/ \E f \in Fids : CacheGet(f)
    \/ \E f \in Fids : RejectAll(f)
    \/ \E f \in Fids : EvalArray(f)
    \/ Finalize
    \/ \E id \in IDs : DeleteOrphan(id)
    \/ \E id \in IDs, ok \in BOOLEAN : DeleteSettle(id, ok)
    \/ FinalizeDone
    \/ NextRun

SpecRuns == InitRuns /\ [][NextRuns]_vars

\* one pass of evaluate on an empty state store, up to the settling of the
\* top-level call
InitEvaluate ==
    /\ \E t \in EvalTops, fc \in FailSets : StartRun(t, fc, {})
    /\ run = 1
    /\ prev = NoRun
    /\ fsys = NoFs
    /\ zoneTest = NoZoneTest
    /\ lambda = NoLambda
    /\ role = NoRole
    /\ router = NoRouter
    /\ tsfile = NoTsFile

NextEvaluate ==
    \/ \E f \in Fids : CacheHit(f)
    \/ \E f \in Fids : Invoke(f)
    \/ \E f \in Fids : ProviderResolve(f)
    \/ \E f \in Fids : ProviderReject(f)
    \/ \E f \in Fids : CacheGet(f)
    \/ \E f \in Fids : RejectAll(f)
    \/ \E f \in Fids : EvalArray(f)
    \/ \E f \in Fids : EvalObject(f)
    \/ \E f \in Fids : OutputApply(f)
    \/ \E f \in Fids : OutputParentRejected(f)
    \/ \E f \in Fids : OutputReturn(f)

SpecEvaluate == InitEvaluate /\ [][NextEvaluate]_vars

\* every provider operation and every transformation terminates, and the
\* event loop resumes every evaluate call whose awaited promise has settled
SpecEvaluateFair == SpecEvaluate /\ WF_vars(NextEvaluate)

(***************************************************************************)
(* One evaluation of a graph in which two distinct handles carry the same  *)
(* id.                                                                     *)
(***************************************************************************)
DupFailSets == {{}, {"C"}, {"F"}, {"A"}}

DupPriorSets == {{}, {"A", "C"}}

InitDup ==
    /\ \E t \in DupTops, f \in DupFailSets, P \in DupPriorSets :
          StartRun(t, f, {PriorRecord(h) : h \in P})
    /\ run = 1
    /\ prev = NoRun
    /\ fsys = NoFs
    /\ zoneTest = NoZoneTest
    /\ lambda = NoLambda
    /\ role = NoRole
    /\ router = NoRouter
    /\ tsfile = NoTsFile

NextDup ==
    \/ \E f \in Fids : CacheHit(f)
    \/ \E f \in Fids : Invoke(f)
    \/ \E f \in Fids : ProviderResolve(f)
    \/ \E f \in Fids : ProviderReject(f)
    \/ \E f \in Fids : CacheGet(f)
    \/ \E f \in Fids : RejectAll(f)
    \/ \E f \in Fids : EvalArray(f)

SpecDup == InitDup /\ [][NextDup]_vars

(***************************************************************************)
(* The filesystem-backed providers: File, Folder, TypeScriptFile and       *)
(* ShadcnComponent, invoked by phase on one target.                        *)
(***************************************************************************)
FsKinds == {"File", "Folder", "TypeScriptFile", "ShadcnComponent"}

FsPhases == {"create", "update", "delete"}

\* the target on disk: there, not there, there but not removable by this
\* process, or (a directory) holding entries
TargetStates == {"present", "absent", "denied", "nonempty"}

\* the error code of unlink(path) / rmdir(path) on a target, "" when it succeeds
RemoveCode(t) ==
    CASE t = "present" -> ""
      [] t = "absent" -> "ENOENT"
      [] t = "denied" -> "EACCES"
      [] t = "nonempty" -> "ENOTEMPTY"

\* ignore(codes, fn): an error of fn whose code is one of codes is dropped
ignore(codes, code) == code \in codes

\* mutant: every error of the removal call is thrown on
SwallowedNone(kind, code) == FALSE

\* the provider's handling of an error of its removal call: TRUE when the
\* error is dropped and the provider goes on to this.destroy()
Swallowed(kind, code) ==
    CASE kind = "File" -> ignore({"ENOENT"}, code)
      [] kind = "Folder" -> ignore({"ENOENT", "ENOTEMPTY"}, code)
      [] kind = "TypeScriptFile" -> ~(code # "ENOENT")
      [] kind = "ShadcnComponent" -> ~(code # "ENOENT")

FsResting == {"idle", "destroyed", "returned", "thrown"}

\* everything but the filesystem provider
core == <<top, fails, frames, cache, invoked, calls, completion, fnCalls, records, prior, stage,
          deleting, deleted, failed, run, prev>>

\* the provider function is called with this.phase = ph and runs up to its
\* first await
FsInvoke(ph) ==
    /\ fsys.pc \in FsResting
    /\ fsys.n < MaxFsCalls
    /\ fsys' = [fsys EXCEPT
          !.phase = ph,
          !.n = @ + 1,
          !.removal = "",
          !.error = "",
          !.pc = IF fsys.kind = "TypeScriptFile" THEN "mkdir"
                 ELSE IF ph # "delete" THEN "write"
                 ELSE IF fsys.kind = "Folder" /\ fsys.keep THEN "destroyed"
                 ELSE "remove"]
    /\ UNCHANGED <<core, zoneTest, lambda, role, router, tsfile>>

\* TypeScriptFile: await fs.mkdir(path.dirname(props.path), { recursive: true })
\* runs before the phase is looked at
FsMkdir ==
    /\ fsys.pc = "mkdir"
    /\ fsys' = IF fsys.parent = "denied"
               THEN [fsys EXCEPT !.pc = "thrown", !.error = "EACCES"]
               ELSE [fsys EXCEPT !.pc = IF fsys.phase = "delete" THEN "remove" ELSE "write"]
    /\ UNCHANGED <<core, zoneTest, lambda, role, router, tsfile>>

\* the removal call: unlink of the file, rmdir of the folder
FsRemove ==
    /\ fsys.pc = "remove"
    /\ fsys' = [fsys EXCEPT
          !.removal = RemoveCode(fsys.target),
          !.target = IF fsys.target = "present" THEN "absent" ELSE @,
          !.pc = "settle"]
    /\ UNCHANGED <<core, zoneTest, lambda, role, router, tsfile>>

\* the removal call has settled: its error is dropped or thrown on, and
\* without an error thrown the provider returns this.destroy()
FsSettle ==
    /\ fsys.pc = "settle"
    /\ fsys' = IF fsys.removal = "" \/ Swallowed(fsys.kind, fsys.removal)
               THEN [fsys EXCEPT !.pc = "destroyed"]
               ELSE [fsys EXCEPT !.pc = "thrown", !.error = fsys.removal]
    /\ UNCHANGED <<core, zoneTest, lambda, role, router, tsfile>>

\* the create / update branch: the target is written and this(...) returned,
\* or one of its calls throws
FsWrite(ok) ==
    /\ fsys.pc = "write"
    /\ fsys' = IF ok /\ fsys.target # "denied"
               THEN [fsys EXCEPT !.pc = "returned",
                                 !.target = IF @ = "nonempty" THEN @ ELSE "present"]
               ELSE [fsys EXCEPT !.pc = "thrown", !.error = "EACCES"]
    /\ UNCHANGED <<core, zoneTest, lambda, role, router, tsfile>>

InitFs ==
    /\ StartRun("TA", {}, {})
    /\ run = 1
    /\ prev = NoRun
    /\ \E k \in FsKinds, t \in TargetStates, par \in {"ok", "denied"}, keep \in BOOLEAN :
          /\ t = "nonempty" => k = "Folder"
          /\ keep => k = "Folder"
          /\ par = "denied" => k = "TypeScriptFile"
          /\ fsys = FsState(k, t, par, keep, "", "idle", "", "", 0)
    /\ zoneTest = NoZoneTest
    /\ lambda = NoLambda
    /\ role = NoRole
    /\ router = NoRouter
    /\ tsfile = NoTsFile

NextFs ==
    \/ \E ph \in FsPhases : FsInvoke(ph)
    \/ FsMkdir
    \/ FsRemove
    \/ FsSettle
    \/ \E ok \in BOOLEAN : FsWrite(ok)

SpecFs == InitFs /\ [][NextFs]_vars

(***************************************************************************)
(* The Lambda Function provider.  Every await of the provider function is  *)
(* one step; the function at AWS changes between the steps.                *)
(***************************************************************************)
RNF == "ResourceNotFoundException"

IPV == "InvalidParameterValueException"

\* let delay = 100
InitialDelay == 100

\* Math.min(delay * 2, 1000)
DelayCap == 1000

\* Date.now() - startTime > 10000
RoleTimeout == 10000

Min(a, b) == IF a < b THEN a ELSE b

FnStates == {"Pending", "Active", "Inactive", "Failed"}

FnUpdateStatuses == {"InProgress", "Successful", "Failed"}

\* the errors a CreateFunction call throws
CreateErrors ==
    {SdkError(IPV, TRUE), SdkError(IPV, FALSE),
     SdkError("ServiceException", TRUE), SdkError("ResourceConflictException", FALSE)}

\* the error of a command on the function other than CreateFunction: the
\* service fails, or the function is not there
SendError(ok) ==
    IF ~ok THEN SdkError("ServiceException", FALSE)
    ELSE IF ~lambda.exists THEN SdkError(RNF, FALSE)
    ELSE NoError

FnResting == {"idle", "returned", "destroyed", "thrown"}

Throw(l, name) == [l EXCEPT !.pc = "thrown", !.error = name]

\* mutant: every error of the try block enters the CreateFunction loop
CaughtAny(l, name) == [l EXCEPT !.pc = "create", !.elapsed = 0, !.delay = InitialDelay]

\* catch (error) of the try block: ResourceNotFoundException enters the
\* CreateFunction loop (startTime = Date.now(), delay = 100), anything else
\* is thrown on
Caught(l, name) ==
    IF name = RNF
    THEN [l EXCEPT !.pc = "create", !.elapsed = 0, !.delay = InitialDelay]
    ELSE Throw(l, name)

\* mutant: a configuration with State Active counts as stable
StableStateOnly(c) == c.State = "Active"

\* config.State === "Active" && config.LastUpdateStatus === "Successful"
Stable(c) == c.State = "Active" /\ c.LastUpdateStatus = "Successful"

\* mutant: only State Failed counts as a failure
FailedConfigStateOnly(c) == c.State = "Failed"

\* config.State === "Failed" || config.LastUpdateStatus === "Failed"
FailedConfig(c) == c.State = "Failed" \/ c.LastUpdateStatus = "Failed"

\* mutant: every InvalidParameterValueException is retried
RetryableByName(e) == e.name = IPV

\* the negation of: createError.name !== "InvalidParameterValueException" ||
\* !createError.message?.includes("cannot be assumed by Lambda")
Retryable(e) == ~(e.name # IPV \/ ~e.assumable)

\* mutant: the deadline is never looked at
TimedOutNever(elapsed) == FALSE

\* Date.now() - startTime > 10000
TimedOut(elapsed) == elapsed > RoleTimeout

\* mutant: the delay doubles without a cap
NextDelayUncapped(d) == d * 2

\* delay = Math.min(delay * 2, 1000)
NextDelay(d) == Min(d * 2, DelayCap)

\* everything but the Lambda Function provider
others == <<core, fsys, zoneTest, role, router, tsfile>>

\* the provider function is called with this.phase = ph
LbInvoke(ph) ==
    /\ lambda.pc \in FnResting
    /\ lambda.n < MaxFnCalls
    /\ lambda' = LambdaState(ph, "prelude", lambda.exists, lambda.config, lambda.n + 1,
                             lambda.created)
    /\ UNCHANGED others

\* await resolveRegion(client); await zipCode(props.zipPath)
LbPrelude(ok) ==
    /\ lambda.pc = "prelude"
    /\ lambda' = IF ~ok THEN Throw(lambda, "Error")
                 ELSE [lambda EXCEPT !.pc = IF lambda.phase = "delete" THEN "delete" ELSE "get"]
    /\ UNCHANGED others

\* mutant: an absent function fails the delete
LbDeleteStrict(ok) ==
    /\ lambda.pc = "delete"
    /\ LET e == SendError(ok)
           sent == [lambda EXCEPT !.cmds = Append(@, "DeleteFunction"), !.last = e]
       IN lambda' = IF e = NoError
                    THEN [sent EXCEPT !.pc = "destroyed", !.exists = FALSE, !.config = NoConfig]
                    ELSE Throw(sent, e.name)
    /\ UNCHANGED others

\* await ignore(ResourceNotFoundException.name, () => client.send(new
\* DeleteFunctionCommand(...))); return this.destroy()
LbDelete(ok) ==
    /\ lambda.pc = "delete"
    /\ LET e == SendError(ok)
           sent == [lambda EXCEPT !.cmds = Append(@, "DeleteFunction"), !.last = e]
       IN lambda' = IF e = NoError \/ ignore({RNF}, e.name)
                    THEN [sent EXCEPT !.pc = "destroyed", !.exists = FALSE, !.config = NoConfig]
                    ELSE Throw(sent, e.name)
    /\ UNCHANGED others

\* await client.send(new GetFunctionCommand(...)): the existence check
LbGet(ok) ==
    /\ lambda.pc = "get"
    /\ LET e == SendError(ok)
           sent == [lambda EXCEPT !.last = e]
       IN lambda' =
             IF e # NoError THEN Caught(sent, e.name)
             ELSE IF lambda.phase = "update"
             THEN [sent EXCEPT !.found = TRUE, !.pc = "wait", !.ret = "code"]
             ELSE [sent EXCEPT !.found = TRUE, !.pc = "details"]
    /\ UNCHANGED others

\* waitForFunctionStabilization: one GetFunctionConfigurationCommand and the
\* checks on its result
LbWaitPoll(ok) ==
    /\ lambda.pc = "wait"
    /\ LET e == SendError(ok)
           sent == [lambda EXCEPT !.last = e]
           seen == [sent EXCEPT !.observed = lambda.config]
       IN lambda' =
             IF e # NoError THEN Caught(sent, e.name)
             ELSE IF Stable(lambda.config) THEN [seen EXCEPT !.pc = lambda.ret, !.ret = ""]
             ELSE IF FailedConfig(lambda.config) THEN Caught(seen, "Error")
             ELSE [seen EXCEPT !.pc = "waitSleep"]
    /\ UNCHANGED others

\* waitForFunctionStabilization: await new Promise((resolve) => setTimeout(resolve, 1000))
LbWaitSleep ==
    /\ lambda.pc = "waitSleep"
    /\ lambda' = [lambda EXCEPT !.pc = "wait"]
    /\ UNCHANGED others

\* await client.send(new UpdateFunctionCodeCommand(...)), then
\* waitForFunctionStabilization; what was observed before the command says
\* nothing about the update
LbUpdateCode(ok) ==
    /\ lambda.pc = "code"
    /\ LET e == SendError(ok)
           sent == [lambda EXCEPT !.cmds = Append(@, "UpdateFunctionCode"), !.last = e,
                                  !.observed = NoConfig]
       IN lambda' =
             IF e # NoError THEN Caught(sent, e.name)
             ELSE [sent EXCEPT !.config.LastUpdateStatus = "InProgress",
                               !.pc = "wait", !.ret = "config"]
    /\ UNCHANGED others

\* await client.send(new UpdateFunctionConfigurationCommand(...)), then
\* waitForFunctionStabilization
LbUpdateConfig(ok) ==
    /\ lambda.pc = "config"
    /\ LET e == SendError(ok)
           sent == [lambda EXCEPT !.cmds = Append(@, "UpdateFunctionConfiguration"), !.last = e,
                                  !.observed = NoConfig]
       IN lambda' =
             IF e # NoError THEN Caught(sent, e.name)
             ELSE [sent EXCEPT !.config.LastUpdateStatus = "InProgress",
                               !.pc = "wait", !.ret = "details"]
    /\ UNCHANGED others

\* one pass of the while (true) loop: await client.send(new
\* CreateFunctionCommand(...)), which takes lat ms and throws e (NoError:
\* it succeeds, the new function being in State st); break, rethrow, the
\* timeout error, or on to the sleep
LbCreate(e, lat, st) ==
    /\ lambda.pc = "create"
    /\ e = NoError => ~lambda.exists
    /\ LET sent == [lambda EXCEPT !.cmds = Append(@, "CreateFunction"), !.last = e,
                                  !.elapsed = @ + lat, !.observed = NoConfig]
       IN lambda' =
             IF e = NoError
             THEN [sent EXCEPT !.pc = "active", !.exists = TRUE, !.created = @ + 1,
                               !.config = Config(st, "Successful")]
             ELSE IF ~Retryable(e) THEN Throw(sent, e.name)
             ELSE IF TimedOut(sent.elapsed) THEN Throw(sent, "Timeout")
             ELSE [sent EXCEPT !.pc = "backoff"]
    /\ UNCHANGED others

\* await new Promise((resolve) => setTimeout(resolve, delay));
\* delay = Math.min(delay * 2, 1000)
LbBackoff ==
    /\ lambda.pc = "backoff"
    /\ lambda' = [lambda EXCEPT !.sleeps = Append(@, lambda.delay),
                                !.elapsed = @ + lambda.delay,
                                !.delay = NextDelay(@),
                                !.pc = "create"]
    /\ UNCHANGED others

\* while (isCreating): one GetFunctionConfigurationCommand;
\* isCreating = config.State === "Pending"
LbActivePoll(ok) ==
    /\ lambda.pc = "active"
    /\ LET e == SendError(ok)
           sent == [lambda EXCEPT !.last = e]
       IN lambda' =
             IF e # NoError THEN Throw(sent, e.name)
             ELSE [sent EXCEPT !.observed = lambda.config,
                               !.pc = IF lambda.config.State = "Pending"
                                      THEN "activeSleep" ELSE "details"]
    /\ UNCHANGED others

\* if (isCreating) await new Promise((resolve) => setTimeout(resolve, 1000))
LbActiveSleep ==
    /\ lambda.pc = "activeSleep"
    /\ lambda' = [lambda EXCEPT !.pc = "active"]
    /\ UNCHANGED others

\* const [func, config] = await Promise.all([GetFunction, GetFunctionConfiguration]);
\* return this({..., state: config.State, ...})
LbDetails(ok) ==
    /\ lambda.pc = "details"
    /\ LET e == SendError(ok)
           sent == [lambda EXCEPT !.last = e]
       IN lambda' =
             IF e # NoError THEN Throw(sent, e.name)
             ELSE [sent EXCEPT !.observed = lambda.config, !.pc = "returned"]
    /\ UNCHANGED others

\* AWS: a Pending function becomes Active or Failed, an update in progress
\* succeeds or fails
AwsProgress(st, lus) ==
    /\ lambda.exists
    /\ lambda.pc \notin FnResting
    /\ Config(st, lus) # lambda.config
    /\ st # lambda.config.State => lambda.config.State = "Pending" /\ st \in {"Active", "Failed"}
    /\ lus # lambda.config.LastUpdateStatus =>
          lambda.config.LastUpdateStatus = "InProgress" /\ lus \in {"Successful", "Failed"}
    /\ lambda' = [lambda EXCEPT !.config = Config(st, lus)]
    /\ UNCHANGED others

\* AWS: the function is deleted by someone else while the provider runs
AwsVanish ==
    /\ lambda.exists
    /\ lambda.pc \notin FnResting
    /\ lambda' = [lambda EXCEPT !.exists = FALSE, !.config = NoConfig]
    /\ UNCHANGED others

InitLambda ==
    /\ StartRun("TA", {}, {})
    /\ run = 1
    /\ prev = NoRun
    /\ fsys = NoFs
    /\ zoneTest = NoZoneTest
    /\ role = NoRole
    /\ router = NoRouter
    /\ tsfile = NoTsFile
    /\ \/ lambda = NoLambda
       \/ \E st \in FnStates, lus \in FnUpdateStatuses :
             lambda = LambdaState("", "idle", TRUE, Config(st, lus), 0, 0)

NextLambda ==
    \/ \E ph \in {"create", "update", "delete"} : LbInvoke(ph)
    \/ \E ok \in BOOLEAN : LbPrelude(ok)
    \/ \E ok \in BOOLEAN : LbDelete(ok)
    \/ \E ok \in BOOLEAN : LbGet(ok)
    \/ \E ok \in BOOLEAN : LbWaitPoll(ok)
    \/ LbWaitSleep
    \/ \E ok \in BOOLEAN : LbUpdateCode(ok)
    \/ \E ok \in BOOLEAN : LbUpdateConfig(ok)
    \/ \E e \in CreateErrors \cup {NoError}, lat \in {0, CallLatency}, st \in {"Pending", "Active"} :
          LbCreate(e, lat, st)
    \/ LbBackoff
    \/ \E ok \in BOOLEAN : LbActivePoll(ok)
    \/ LbActiveSleep
    \/ \E ok \in BOOLEAN : LbDetails(ok)
    \/ \E st \in FnStates, lus \in FnUpdateStatuses : AwsProgress(st, lus)
    \/ AwsVanish

SpecLambda == InitLambda /\ [][NextLambda]_vars

\* the event loop runs every timer that is due, and every command sent to
\* AWS is answered
SpecLambdaFair == SpecLambda /\ WF_vars(NextLambda)

(***************************************************************************)
(* The test "create, update, and delete zone with all settings": Zone is   *)
(* applied twice under one id inside try, destroy(scope) runs in finally.  *)
(***************************************************************************)
\* the statements of the try block in order: the call of Zone, the expects
\* on its result, api.get, the response's json() and the expects on it, for
\* the create and then for the update; then the finally block
TestSteps == <<"create", "expect1", "get1", "json1", "check1",
               "update", "expect2", "get2", "json2", "check2", "finally">>

StepAfter(pc) == TestSteps[1 + CHOOSE i \in DOMAIN TestSteps : TestSteps[i] = pc]

\* zone = await Zone(testDomain, {...}): the first and the second call.  The
\* phase follows the scope's record; a call that throws may have created
\* the zone at the provider already (partial).
ZtZone(ok, partial) ==
    /\ zoneTest.pc \in {"create", "update"}
    /\ zoneTest' =
          IF ok
          THEN [zoneTest EXCEPT
                  !.phases = Append(@, IF zoneTest.recorded THEN "update" ELSE "create"),
                  !.exists = TRUE, !.recorded = TRUE, !.zone = TRUE,
                  !.pc = StepAfter(zoneTest.pc)]
          ELSE [zoneTest EXCEPT
                  !.phases = Append(@, IF zoneTest.recorded THEN "update" ELSE "create"),
                  !.exists = @ \/ partial,
                  !.thrown = zoneTest.pc, !.pc = "catch"]
    /\ UNCHANGED <<core, fsys, lambda, role, router, tsfile>>

\* the expect(...) calls, api.get(...) and json() after a call of Zone: each
\* goes on to the next statement or throws
ZtAssert(ok) ==
    /\ zoneTest.pc \in Range(TestSteps) \ {"create", "update", "finally"}
    /\ zoneTest' =
          IF ok
          THEN [zoneTest EXCEPT !.pc = StepAfter(zoneTest.pc)]
          ELSE [zoneTest EXCEPT !.thrown = zoneTest.pc, !.pc = "catch"]
    /\ UNCHANGED <<core, fsys, lambda, role, router, tsfile>>

\* mutant: the error leaves the test without the cleanup
ZtCatchNoFinally ==
    /\ zoneTest.pc = "catch"
    /\ zoneTest' = [zoneTest EXCEPT !.pc = "done"]
    /\ UNCHANGED <<core, fsys, lambda, role, router, tsfile>>

\* catch (err) { console.log(err); throw err; } finally { ...
ZtCatch ==
    /\ zoneTest.pc = "catch"
    /\ zoneTest' = [zoneTest EXCEPT !.pc = "finally"]
    /\ UNCHANGED <<core, fsys, lambda, role, router, tsfile>>

\* await destroy(scope): the provider operation of every resource recorded
\* in the scope is invoked with phase delete; a delete that succeeds removes
\* the resource at the provider and its record
ZtDestroy(ok) ==
    /\ zoneTest.pc = "finally"
    /\ zoneTest.recorded \/ ok
    /\ zoneTest' =
          IF ~zoneTest.recorded
          THEN [zoneTest EXCEPT !.destroyed = "ok",
                                !.pc = IF zoneTest.zone THEN "verify" ELSE "done"]
          ELSE IF ok
          THEN [zoneTest EXCEPT !.phases = Append(@, "delete"),
                                !.exists = FALSE, !.recorded = FALSE, !.destroyed = "ok",
                                !.pc = IF zoneTest.zone THEN "verify" ELSE "done"]
          ELSE [zoneTest EXCEPT !.phases = Append(@, "delete"),
                                !.destroyed = "err", !.thrown = "destroy", !.pc = "done"]
    /\ UNCHANGED <<core, fsys, lambda, role, router, tsfile>>

\* if (zone) { api.get(`/zones/${zone.id}`); expect "Invalid zone identifier" }
ZtVerify(ok) ==
    /\ zoneTest.pc = "verify"
    /\ zoneTest' = [zoneTest EXCEPT
          !.thrown = IF ~ok \/ zoneTest.exists THEN "verify" ELSE @,
          !.pc = "done"]
    /\ UNCHANGED <<core, fsys, lambda, role, router, tsfile>>

InitZoneTest ==
    /\ StartRun("TA", {}, {})
    /\ run = 1
    /\ prev = NoRun
    /\ fsys = NoFs
    /\ lambda = NoLambda
    /\ role = NoRole
    /\ router = NoRouter
    /\ tsfile = NoTsFile
    /\ \E e, r \in BOOLEAN : zoneTest = ZoneTestState("create", FALSE, e, r, <<>>, "", "")

NextZoneTest ==
    \/ \E ok, partial \in BOOLEAN : ZtZone(ok, partial)
    \/ \E ok \in BOOLEAN : ZtAssert(ok)
    \/ ZtCatch
    \/ \E ok \in BOOLEAN : ZtDestroy(ok)
    \/ \E ok \in BOOLEAN : ZtVerify(ok)

SpecZoneTest == InitZoneTest /\ [][NextZoneTest]_vars

(***************************************************************************)
(* The IAM Role provider (aws/role.ts): delete removes the inline policies *)
(* and the role; create and update create or adopt the role, bring its     *)
(* settings and tags up to date and reconcile the inline policies.         *)
(***************************************************************************)
NSE == "NoSuchEntityException"

EAE == "EntityAlreadyExistsException"

\* the errors a command sent to IAM may throw ("": none)
IamErrors == {"", NSE, "ServiceFailureException"}

\* ctx.stage and ctx.resourceID of the invocation
CtxStage == "dev"

CtxResourceID == "my-role"

\* a policy document is an object: its keys in insertion order
KV(k, v) == [k |-> k, v |-> v]

PolicyDocuments ==
    {<<KV("Effect", "Allow"), KV("Action", "s3:Get")>>,
     <<KV("Action", "s3:Get"), KV("Effect", "Allow")>>,
     <<KV("Effect", "Deny"), KV("Action", "s3:Get")>>}

\* JSON.stringify writes the keys of an object in insertion order
JSONstringify(d) == Flat([i \in DOMAIN d |-> <<d[i].k, d[i].v>>])

PolicyNames == {"p", "q"}

Policy(n, d) == [policyName |-> n, policyDocument |-> d]

Policies == {Policy(n, d) : n \in PolicyNames, d \in PolicyDocuments}

\* props.policies: inline policies with distinct names, in declared order
PolicyLists ==
    {<<>>} \cup {<<x>> : x \in Policies}
           \cup {xy \in Policies \X Policies : xy[1].policyName # xy[2].policyName}

\* the tags an existing role may carry: ours, another stage's, another
\* resource's, none
ExistingTags ==
    {Tags(CtxStage, CtxResourceID), Tags("prod", CtxResourceID), Tags(CtxStage, "other-role"), NoTags}

\* a command sent to IAM and the policy it names
Cmd(name, policy) == [cmd |-> name, policy |-> policy]

RoleResting == {"idle", "returned", "thrown"}

RoleThrow(r, name) == [r EXCEPT !.pc = "thrown", !.error = name]

\* ctx.event === "update" ? ctx.output.policies || [] : []
previousPolicies(r) == IF r.event = "update" THEN r.previous ELSE <<>>

currentPolicies(r) == r.policies

\* !currentPolicies.some((p) => p.policyName === oldPolicy.policyName)
PolicyRemoved(r, k) ==
    ~\E j \in DOMAIN currentPolicies(r) :
        currentPolicies(r)[j].policyName = previousPolicies(r)[k].policyName

\* mutant: a policy is put only when its name is new
PolicyChangedByName(r, k) ==
    ~\E j \in DOMAIN previousPolicies(r) :
        previousPolicies(r)[j].policyName = currentPolicies(r)[k].policyName

\* const oldPolicy = previousPolicies.find(...); !oldPolicy ||
\* JSON.stringify(oldPolicy.policyDocument) !== JSON.stringify(policy.policyDocument)
PolicyChanged(r, k) ==
    LET olds == {j \in DOMAIN previousPolicies(r) :
                    previousPolicies(r)[j].policyName = currentPolicies(r)[k].policyName}
        oldPolicy == previousPolicies(r)[CHOOSE j \in olds : \A j2 \in olds : j <= j2]
    IN \/ olds = {}
       \/ JSONstringify(oldPolicy.policyDocument) # JSONstringify(currentPolicies(r)[k].policyDocument)

\* the first index from i on that is in S, 0 when there is none
FirstFrom(S, i) ==
    IF \E k \in S : k >= i THEN CHOOSE k \in S : k >= i /\ \A k2 \in S : k2 >= i => k <= k2 ELSE 0

\* for (const policy of currentPolicies): the next policy to put, or return
ToPut(r, i) ==
    LET k == FirstFrom({j \in DOMAIN currentPolicies(r) : PolicyChanged(r, j)}, i)
    IN IF k # 0 THEN [r EXCEPT !.pc = "put", !.i = k] ELSE [r EXCEPT !.pc = "returned"]

\* for (const oldPolicy of previousPolicies): the next policy to delete, or
\* on to the second loop
ToDeleteOld(r, i) ==
    LET k == FirstFrom({j \in DOMAIN previousPolicies(r) : PolicyRemoved(r, j)}, i)
    IN IF k # 0 THEN [r EXCEPT !.pc = "deleteOld", !.i = k] ELSE ToPut(r, 1)

\* mutant: the ownership check compares the stage only
OwnedByStage(t) == t.alchemy_stage = CtxStage

\* roleTags.alchemy_stage !== ctx.stage || roleTags.alchemy_resource !== ctx.resourceID
\* is false
Owned(t) == ~(t.alchemy_stage # CtxStage \/ t.alchemy_resource # CtxResourceID)

\* IAM answers a command on the role: it succeeds only when the role exists
\* and reports NoSuchEntity only when it does not
RoleAnswer(e) == (e = "" => role.exists) /\ (e = NSE => ~role.exists)

unchangedByRole == <<core, fsys, zoneTest, lambda, router, tsfile>>

\* the provider function is called and runs up to its first await
RlInvoke(ev, cur, prv) ==
    /\ role.pc = "idle"
    /\ ev # "update" => prv = <<>>
    /\ role' = RoleState(ev,
                         IF ev = "delete" THEN (IF cur = <<>> THEN "deleteRole" ELSE "deletePolicy")
                         ELSE IF ev = "create" THEN "create" ELSE "get",
                         1, cur, prv, role.exists, role.tags)
    /\ UNCHANGED unchangedByRole

\* mutant: NoSuchEntity from DeleteRolePolicy is thrown on
RlDeletePolicyStrict(e) ==
    /\ role.pc = "deletePolicy"
    /\ e = "" => role.exists
    /\ LET sent == [role EXCEPT !.cmds = Append(@, Cmd("DeleteRolePolicy", role.policies[role.i].policyName))]
       IN role' = IF e # "" THEN RoleThrow(sent, e)
                  ELSE IF role.i < Len(role.policies) THEN [sent EXCEPT !.i = @ + 1]
                  ELSE [sent EXCEPT !.pc = "deleteRole"]
    /\ UNCHANGED unchangedByRole

\* delete: await ignore(NoSuchEntityException.name, () => DeleteRolePolicy)
\* for one policy of props.policies
RlDeletePolicy(e) ==
    /\ role.pc = "deletePolicy"
    /\ e = "" => role.exists
    /\ LET sent == [role EXCEPT !.cmds = Append(@, Cmd("DeleteRolePolicy", role.policies[role.i].policyName)),
                                !.ignored = IF e # "" /\ ignore({NSE}, e) THEN @ + 1 ELSE @]
       IN role' = IF e # "" /\ ~ignore({NSE}, e) THEN RoleThrow(sent, e)
                  ELSE IF role.i < Len(role.policies) THEN [sent EXCEPT !.i = @ + 1]
                  ELSE [sent EXCEPT !.pc = "deleteRole"]
    /\ UNCHANGED unchangedByRole

\* delete: await ignore(NoSuchEntityException.name, () => DeleteRole); return
RlDeleteRole(e) ==
    /\ role.pc = "deleteRole"
    /\ RoleAnswer(e)
    /\ LET sent == [role EXCEPT !.cmds = Append(@, Cmd("DeleteRole", "")),
                                !.ignored = IF e # "" /\ ignore({NSE}, e) THEN @ + 1 ELSE @]
       IN role' = IF e # "" /\ ~ignore({NSE}, e) THEN RoleThrow(sent, e)
                  ELSE [sent EXCEPT !.pc = "returned", !.exists = FALSE, !.tags = NoTags]
    /\ UNCHANGED unchangedByRole

\* try { if (ctx.event === "create") await CreateRole } catch (error): on
\* EntityAlreadyExists in create the ownership check follows, NoSuchEntity is
\* dropped, every other error is thrown on
RlCreate(e) ==
    /\ role.pc = "create"
    /\ e = "" => ~role.exists
    /\ e = EAE => role.exists
    /\ LET sent == [role EXCEPT !.cmds = Append(@, Cmd("CreateRole", ""))]
       IN role' =
             IF e = "" THEN [sent EXCEPT !.pc = "get", !.exists = TRUE,
                                         !.tags = Tags(CtxStage, CtxResourceID)]
             ELSE IF e = EAE /\ role.event = "create" THEN [sent EXCEPT !.pc = "check", !.existed = TRUE]
             ELSE IF e # NSE THEN RoleThrow(sent, e)
             ELSE [sent EXCEPT !.pc = "get"]
    /\ UNCHANGED unchangedByRole

\* catch: const existingRole = await GetRole; the tags are compared with
\* ctx.stage and ctx.resourceID; throw error when they differ
RlCheck(e) ==
    /\ role.pc = "check"
    /\ RoleAnswer(e)
    /\ role' = IF e # "" THEN RoleThrow(role, e)
               ELSE LET read == [role EXCEPT !.roleTags = role.tags]
                    IN IF Owned(role.tags) THEN [read EXCEPT !.pc = "get"] ELSE RoleThrow(read, EAE)
    /\ UNCHANGED unchangedByRole

\* role = await GetRole; a and d say whether the assume role policy and the
\* description or max session duration it returned differ from props
RlGet(e, a, d) ==
    /\ role.pc = "get"
    /\ RoleAnswer(e)
    /\ role' = IF e # "" THEN RoleThrow(role, e)
               ELSE [role EXCEPT !.assumeDiffers = a, !.descDiffers = d,
                                 !.pc = IF a THEN "assume" ELSE IF d THEN "update" ELSE "tag"]
    /\ UNCHANGED unchangedByRole

\* await UpdateAssumeRolePolicy
RlUpdateAssume(e) ==
    /\ role.pc = "assume"
    /\ RoleAnswer(e)
    /\ LET sent == [role EXCEPT !.cmds = Append(@, Cmd("UpdateAssumeRolePolicy", ""))]
       IN role' = IF e # "" THEN RoleThrow(sent, e)
                  ELSE [sent EXCEPT !.pc = IF role.descDiffers THEN "update" ELSE "tag"]
    /\ UNCHANGED unchangedByRole

\* await UpdateRole
RlUpdateRole(e) ==
    /\ role.pc = "update"
    /\ RoleAnswer(e)
    /\ LET sent == [role EXCEPT !.cmds = Append(@, Cmd("UpdateRole", ""))]
       IN role' = IF e # "" THEN RoleThrow(sent, e) ELSE [sent EXCEPT !.pc = "tag"]
    /\ UNCHANGED unchangedByRole

\* await TagRole with props.tags, alchemy_stage and alchemy_resource; then
\* the first loop over previousPolicies
RlTag(e) ==
    /\ role.pc = "tag"
    /\ RoleAnswer(e)
    /\ LET sent == [role EXCEPT !.cmds = Append(@, Cmd("TagRole", ""))]
       IN role' = IF e # "" THEN RoleThrow(sent, e)
                  ELSE ToDeleteOld([sent EXCEPT !.tags = Tags(CtxStage, CtxResourceID)], 1)
    /\ UNCHANGED unchangedByRole

\* await ignore(NoSuchEntityException.name, () => DeleteRolePolicy) for a
\* previous policy that props no longer names
RlDeleteOld(e) ==
    /\ role.pc = "deleteOld"
    /\ e = "" => role.exists
    /\ LET sent == [role EXCEPT !.cmds = Append(@, Cmd("DeleteRolePolicy", previousPolicies(role)[role.i].policyName)),
                                !.ignored = IF e # "" /\ ignore({NSE}, e) THEN @ + 1 ELSE @]
       IN role' = IF e # "" /\ ~ignore({NSE}, e) THEN RoleThrow(sent, e)
                  ELSE ToDeleteOld(sent, role.i + 1)
    /\ UNCHANGED unchangedByRole

\* await PutRolePolicy for a policy that is new or whose document changed;
\* after the last one the provider returns
RlPut(e) ==
    /\ role.pc = "put"
    /\ RoleAnswer(e)
    /\ LET sent == [role EXCEPT !.cmds = Append(@, Cmd("PutRolePolicy", currentPolicies(role)[role.i].policyName))]
       IN role' = IF e # "" THEN RoleThrow(sent, e) ELSE ToPut(sent, role.i + 1)
    /\ UNCHANGED unchangedByRole

\* IAM: the role is deleted by someone else while the provider runs
IamDeleted ==
    /\ role.exists
    /\ role.pc \notin RoleResting
    /\ role' = [role EXCEPT !.exists = FALSE, !.tags = NoTags]
    /\ UNCHANGED unchangedByRole

InitRole ==
    /\ StartRun("TA", {}, {})
    /\ run = 1
    /\ prev = NoRun
    /\ fsys = NoFs
    /\ zoneTest = NoZoneTest
    /\ lambda = NoLambda
    /\ router = NoRouter
    /\ tsfile = NoTsFile
    /\ \/ role = NoRole
       \/ \E t \in ExistingTags : role = RoleState("", "idle", 0, <<>>, <<>>, TRUE, t)

NextRole ==
    \/ \E ev \in {"create", "update", "delete"}, cur \in PolicyLists, prv \in PolicyLists :
          RlInvoke(ev, cur, prv)
    \/ \E e \in IamErrors : RlDeletePolicy(e)
    \/ \E e \in IamErrors : RlDeleteRole(e)
    \/ \E e \in IamErrors \cup {EAE} : RlCreate(e)
    \/ \E e \in IamErrors : RlCheck(e)
    \/ \E e \in IamErrors, a \in BOOLEAN, d \in BOOLEAN : RlGet(e, a, d)
    \/ \E e \in IamErrors : RlUpdateAssume(e)
    \/ \E e \in IamErrors : RlUpdateRole(e)
    \/ \E e \in IamErrors : RlTag(e)
    \/ \E e \in IamErrors : RlDeleteOld(e)
    \/ \E e \in IamErrors : RlPut(e)
    \/ IamDeleted

SpecRole == InitRole /\ [][NextRole]_vars

(***************************************************************************)
(* The static-site router (cloudflare/static-site-router.ts): fetch looks  *)
(* the request up in the cache, then reads the asset from KV under the     *)
(* exact path and two guesses, then falls back to the error or index page. *)
(* A path is the sequence of its parts, every "/" a part of its own.       *)
(***************************************************************************)
INDEX_PAGE == <<"index.html">>

\* env.ERROR_PAGE: not configured, or the error page
ErrorPages == {<<>>, <<"404.html">>}

\* url.pathname of the requests
Pathnames == {<<"/">>, <<"/", "docs">>, <<"/", "docs", "/">>, <<"/", "about">>, <<"/", "missing">>}

Methods == {"GET", "HEAD"}

\* a deployed site: the keys in KV and the paths of the asset manifest
Site(kv, manifest) == [kv |-> kv, manifest |-> manifest]

Sites ==
    {Site({}, {}),
     Site({<<"index.html">>}, {<<"index.html">>}),
     Site({<<"index.html">>, <<"docs", "/", "index.html">>, <<"about", ".html">>, <<"404.html">>},
          {<<"index.html">>, <<"docs", "/", "index.html">>, <<"about", ".html">>}),
     Site({<<"docs">>, <<"docs", "/", "index.html">>, <<"about">>, <<"about", ".html">>},
          {<<"docs">>, <<"docs", "/", "index.html">>, <<"about">>, <<"about", ".html">>})}

\* url.pathname.replace(/^\//, "")
StripSlash(pathname) == IF pathname # <<>> /\ Head(pathname) = "/" THEN Tail(pathname) ELSE pathname

\* pathname === "" ? env.INDEX_PAGE : pathname
FilePathOf(pathname) == IF pathname = <<>> THEN INDEX_PAGE ELSE pathname

endsWith(path, part) == path # <<>> /\ path[Len(path)] = part

\* mutant: the slash is added whatever the path ends with
IndexGuessDoubleSlash(filePath) == filePath \o <<"/", "index.html">>

\* filePath + (filePath.endsWith("/") ? "" : "/") + "index.html"
IndexGuess(filePath) == filePath \o (IF endsWith(filePath, "/") THEN <<>> ELSE <<"/">>) \o <<"index.html">>

\* filePath + ".html"
HtmlGuess(filePath) == filePath \o <<".html">>

\* __ASSET_MANIFEST__[filePath]
ManifestEntry(rt, filePath) == IF filePath \in rt.manifest THEN Etag(rt.version) ELSE Undefined

\* mutant: a cached response is returned whatever its etag
EtagDiffersNever(rt, r) == FALSE

\* r.headers.get("etag") !== __ASSET_MANIFEST__[filePath]
EtagDiffers(rt, r) == r.etag # ManifestEntry(rt, rt.filePath)

\* await env.ASSETS.getWithMetadata(key): object.value is truthy
HasValue(rt, key) == key \in rt.kv

\* caches.default holds a response for the request
Cached(rt, url) == url \in DOMAIN rt.cache

\* respond(status, filePath, object): the etag header is set when the
\* manifest has the path, the response is saved in the cache for a GET
\* request, and returned
Respond(rt, status, key) ==
    LET response == Response(status,
                             IF ManifestEntry(rt, key) # Undefined THEN ManifestEntry(rt, key) ELSE Null,
                             key, FALSE)
    IN [rt EXCEPT !.pc = "answered", !.resp = response,
                  !.cache = IF rt.method = "GET"
                            THEN [u \in DOMAIN rt.cache \cup {rt.url} |->
                                     IF u = rt.url THEN response ELSE rt.cache[u]]
                            ELSE @]

\* one getWithMetadata of key: respond with status when it has a value,
\* otherwise go on at next
Get(rt, key, status, next) ==
    LET read == [rt EXCEPT !.tried = Append(@, key)]
    IN IF HasValue(rt, key) THEN Respond(read, status, key) ELSE [read EXCEPT !.pc = next]

unchangedByRouter == <<core, fsys, zoneTest, lambda, role, tsfile>>

\* fetch(request, env) up to await lookupCache()
RtFetch(pathname, method) ==
    /\ router.pc \in {"idle", "answered"}
    /\ router.n < MaxRequests
    /\ router' = [router EXCEPT !.pc = "lookup", !.n = @ + 1, !.url = pathname, !.method = method,
                                !.filePath = FilePathOf(StripSlash(pathname)),
                                !.r = NoResponse, !.tried = <<>>, !.resp = NoResponse]
    /\ UNCHANGED unchangedByRouter

\* lookupCache: r = await cache.match(request), which finds the response
\* saved for the request or (hit = FALSE) nothing; fetch returns r when
\* lookupCache returned it
RtLookupCache(hit) ==
    /\ router.pc = "lookup"
    /\ hit => Cached(router, router.url)
    /\ LET r == IF hit THEN router.cache[router.url] ELSE NoResponse
           matched == [router EXCEPT !.r = r]
       IN router' = IF ~hit \/ EtagDiffers(router, r)
                    THEN [matched EXCEPT !.pc = "exact"]
                    ELSE [matched EXCEPT !.pc = "answered", !.resp = [r EXCEPT !.fromCache = TRUE]]
    /\ UNCHANGED unchangedByRouter

\* the exact path
RtExact ==
    /\ router.pc = "exact"
    /\ router' = Get(router, router.filePath, 200, "index")
    /\ UNCHANGED unchangedByRouter

\* the first guess
RtIndexGuess ==
    /\ router.pc = "index"
    /\ router' = Get(router, IndexGuess(router.filePath), 200, "html")
    /\ UNCHANGED unchangedByRouter

\* the second guess
RtHtmlGuess ==
    /\ router.pc = "html"
    /\ router' = Get(router, HtmlGuess(router.filePath), 200, "error")
    /\ UNCHANGED unchangedByRouter

\* the error page with 404 when env.ERROR_PAGE is set, otherwise the index
\* page with 200; new Response("Page Not Found", {status: 404}) when the
\* page has no value
RtErrorPage ==
    /\ router.pc = "error"
    /\ LET got == IF router.ERROR_PAGE # <<>>
                  THEN Get(router, router.ERROR_PAGE, 404, "plain")
                  ELSE Get(router, INDEX_PAGE, 200, "plain")
       IN router' = IF got.pc = "plain"
                    THEN [got EXCEPT !.pc = "answered", !.resp = Response(404, Null, <<>>, FALSE)]
                    ELSE got
    /\ UNCHANGED unchangedByRouter

\* the site is deployed anew between two requests: KV and the manifest are
\* replaced and every entry of the manifest changes; the cache stays
Deploy(site) ==
    /\ router.pc \in {"idle", "answered"}
    /\ router.version <= MaxDeploys
    /\ router' = [router EXCEPT !.pc = "idle", !.version = @ + 1, !.kv = site.kv,
                                !.manifest = site.manifest, !.url = <<>>, !.method = "",
                                !.filePath = <<>>, !.r = NoResponse, !.tried = <<>>,
                                !.resp = NoResponse]
    /\ UNCHANGED unchangedByRouter

InitRouter ==
    /\ StartRun("TA", {}, {})
    /\ run = 1
    /\ prev = NoRun
    /\ fsys = NoFs
    /\ zoneTest = NoZoneTest
    /\ lambda = NoLambda
    /\ role = NoRole
    /\ tsfile = NoTsFile
    /\ \E site \in Sites, errorPage \in ErrorPages :
          router = RouterState(site.kv, site.manifest, errorPage)

NextRouter ==
    \/ \E pathname \in Pathnames, method \in Methods : RtFetch(pathname, method)
    \/ \E hit \in BOOLEAN : RtLookupCache(hit)
    \/ RtExact
    \/ RtIndexGuess
    \/ RtHtmlGuess
    \/ RtErrorPage
    \/ \E site \in Sites : Deploy(site)

SpecRouter == InitRouter /\ [][NextRouter]_vars

(***************************************************************************)
(* The TypeScriptFile provider (ai/typescript-file.ts) in create and       *)
(* update phase: generate, extract the code, re-prompt once, format, remove *)
(* the file at the previous path, write.  A text is the sequence of its    *)
(* parts: "ts", "tsx" and "js" are the fences ```ts, ```tsx and ```js,     *)
(* "end" is a bare ``` and "txt" is text without a fence.                  *)
(***************************************************************************)
Responses ==
    {<<"txt">>,
     <<"ts", "txt", "end">>,
     <<"txt", "ts", "txt", "end", "txt">>,
     <<"ts", "txt", "end", "ts", "txt", "end">>,
     <<"ts", "txt">>,
     <<"js", "txt", "end">>,
     <<"tsx", "txt", "end">>,
     <<"js", "txt", "end", "ts", "txt", "end">>}

\* the parts that start with ``` and so end a match of ([\s\S]*?)```
Fences == {"ts", "tsx", "js", "end"}

\* the parts that start with ```ts and so start a match
TsFences == {"ts", "tsx"}

\* Array.from(text.matchAll(/```ts\s*([\s\S]*?)```/g)): the matches from
\* part i on, as pairs of the opening and the closing part; from is the
\* opening part of the match under way, 0 when there is none
RECURSIVE matchAll(_, _, _)
matchAll(text, i, from) ==
    IF i > Len(text) THEN <<>>
    ELSE IF from = 0
    THEN matchAll(text, i + 1, IF text[i] \in TsFences THEN i ELSE 0)
    ELSE IF text[i] \in Fences THEN <<<<from, i>>>> \o matchAll(text, i + 1, 0)
    ELSE matchAll(text, i + 1, from)

\* mutant: a response with several code blocks is accepted, the first block
\* being the code
extractTypeScriptCodeFirst(text) ==
    LET matches == matchAll(text, 1, 0)
    IN IF Len(matches) = 0 THEN [code |-> <<>>, error |-> "No TypeScript code block found"]
       ELSE [code |-> SubSeq(text, matches[1][1] + 1, matches[1][2] - 1), error |-> ""]

\* extractTypeScriptCode(text): the code of the only match, or an error
extractTypeScriptCode(text) ==
    LET matches == matchAll(text, 1, 0)
    IN IF Len(matches) = 0 THEN [code |-> <<>>, error |-> "No TypeScript code block found"]
       ELSE IF Len(matches) > 1 THEN [code |-> <<>>, error |-> "Multiple TypeScript code blocks found"]
       ELSE [code |-> (IF text[matches[1][1]] = "tsx" THEN <<"x">> ELSE <<>>)
                         \o SubSeq(text, matches[1][1] + 1, matches[1][2] - 1),
             error |-> ""]

TsThrow(t, error) == [t EXCEPT !.pc = "thrown", !.error = error]

unchangedByTsFile == <<core, fsys, zoneTest, lambda, role, router>>

\* the provider function is called in create or update phase and runs up to
\* await fs.mkdir
TsInvoke(ph, moved) ==
    /\ tsfile.pc = "idle"
    /\ moved => ph = "update"
    /\ tsfile' = TsFileState(ph, "mkdir", moved)
    /\ UNCHANGED unchangedByTsFile

\* await fs.mkdir(path.dirname(props.path), {recursive: true})
TsMkdir(ok) ==
    /\ tsfile.pc = "mkdir"
    /\ tsfile' = IF ok THEN [tsfile EXCEPT !.pc = "generate"] ELSE TsThrow(tsfile, "EACCES")
    /\ UNCHANGED unchangedByTsFile

\* const {text} = await generateText(...); extractTypeScriptCode(text);
\* if (error) the re-prompt follows
TsGenerate(ok, text) ==
    /\ tsfile.pc = "generate"
    /\ LET called == [tsfile EXCEPT !.calls = @ + 1]
           got == [called EXCEPT !.texts = Append(@, text)]
           result == extractTypeScriptCode(text)
       IN tsfile' = IF ~ok THEN TsThrow(called, "APICallError")
                    ELSE IF result.error # "" THEN [got EXCEPT !.pc = "retry"]
                    ELSE [got EXCEPT !.pc = "format", !.code = result.code]
    /\ UNCHANGED unchangedByTsFile

\* const {text: retryText} = await generateText(...) with the error in the
\* system prompt; if (retryResult.error) throw new Error(...)
TsRetry(ok, text) ==
    /\ tsfile.pc = "retry"
    /\ LET called == [tsfile EXCEPT !.calls = @ + 1]
           got == [called EXCEPT !.texts = Append(@, text)]
           retryResult == extractTypeScriptCode(text)
       IN tsfile' = IF ~ok THEN TsThrow(called, "APICallError")
                    ELSE IF retryResult.error # ""
                    THEN TsThrow(got, "Failed to generate valid TypeScript code")
                    ELSE [got EXCEPT !.pc = "format", !.code = retryResult.code]
    /\ UNCHANGED unchangedByTsFile

\* try { code = await prettier.format(code, ...) } catch { console.warn };
\* then the test this.phase === "update" && props.path !== this.props.path
TsFormat(ok) ==
    /\ tsfile.pc = "format"
    /\ tsfile' = [tsfile EXCEPT !.code = IF ok THEN <<"formatted">> \o @ ELSE @,
                                !.pc = IF tsfile.phase = "update" /\ tsfile.moved
                                       THEN "unlinkOld" ELSE "write"]
    /\ UNCHANGED unchangedByTsFile

\* await ignore("ENOENT", () => fs.unlink(this.props.path))
TsUnlinkOld(code) ==
    /\ tsfile.pc = "unlinkOld"
    /\ tsfile' = IF code # "" /\ ~ignore({"ENOENT"}, code) THEN TsThrow(tsfile, code)
                 ELSE [tsfile EXCEPT !.pc = "write", !.unlinked = (code = "")]
    /\ UNCHANGED unchangedByTsFile

\* await fs.writeFile(props.path, code)
TsWrite(ok) ==
    /\ tsfile.pc = "write"
    /\ tsfile' = IF ok THEN [tsfile EXCEPT !.pc = "stat", !.written = TRUE]
                 ELSE TsThrow(tsfile, "EACCES")
    /\ UNCHANGED unchangedByTsFile

\* const stats = await fs.stat(props.path); return this({...})
TsStat(ok) ==
    /\ tsfile.pc = "stat"
    /\ tsfile' = IF ok THEN [tsfile EXCEPT !.pc = "returned"] ELSE TsThrow(tsfile, "ENOENT")
    /\ UNCHANGED unchangedByTsFile

InitTsFile ==
    /\ StartRun("TA", {}, {})
    /\ run = 1
    /\ prev = NoRun
    /\ fsys = NoFs
    /\ zoneTest = NoZoneTest
    /\ lambda = NoLambda
    /\ role = NoRole
    /\ router = NoRouter
    /\ tsfile = NoTsFile

NextTsFile ==
    \/ \E ph \in {"create", "update"}, moved \in BOOLEAN : TsInvoke(ph, moved)
    \/ \E ok \in BOOLEAN : TsMkdir(ok)
    \/ \E ok \in BOOLEAN, text \in Responses : TsGenerate(ok, text)
    \/ \E ok \in BOOLEAN, text \in Responses : TsRetry(ok, text)
    \/ \E ok \in BOOLEAN : TsFormat(ok)
    \/ \E code \in {"", "ENOENT", "EACCES"} : TsUnlinkOld(code)
    \/ \E ok \in BOOLEAN : TsWrite(ok)
    \/ \E ok \in BOOLEAN : TsStat(ok)

SpecTsFile == InitTsFile /\ [][NextTsFile]_vars

(***************************************************************************)
(* Properties of the evaluator.                                            *)
(***************************************************************************)
\* the handles a node's evaluation depends on: its inputs, items, parent and
\* what its transformation returns, transitively (and itself, for a handle)
RECURSIVE Reach(_)
Reach(n) ==
    LET d == NodeDef(n)
        sub == UNION {Reach(d.items[i]) : i \in DOMAIN d.items}
                 \cup (IF d.kind = "out" /\ d.fn = "chain" THEN Reach(d.ret) ELSE {})
    IN IF d.kind = "res" THEN {n} \cup sub ELSE sub

FramesOf(n) == {f \in Fids : frames[f].node = n}

\* the frame got past the evaluation of its inputs
PastInputs(f) ==
    \/ frames[f].pc \in {"cacheGet", "provider"}
    \/ frames[f].pc = "done" /\ frames[f].from \in {"cacheGet", "provider"}

\* C1: a handle reached by two or more paths in one pass has its provider
\* operation invoked exactly once, under every interleaving: no handle is ever
\* invoked twice, and every reference that got past its inputs found one
\* invocation.
C1_AtMostOnceInvocation ==
    \A h \in Handles :
       /\ invoked[h] <= 1
       /\ Cardinality({c \in calls : c.handle = h}) = invoked[h]
       /\ \A f \in FramesOf(h) : PastInputs(f) => invoked[h] = 1

C1_Witness ==
    \E h \in Handles : \E f, g \in FramesOf(h) :
       /\ f # g
       /\ frames[f].st = "ok" /\ frames[f].from = "provider"
       /\ frames[g].st = "ok" /\ frames[g].from = "cacheGet"
       /\ invoked[h] = 1

\* C2: whenever a provider operation is in flight the cache holds the pending
\* entry of its handle (it is set in the step that invokes the provider), a
\* concurrent reference waits on that entry, and every reference that resolves
\* receives the Evaluated result of the entry: same value, same dependencies.
C2_PendingBeforeAwait ==
    \A h \in Handles :
       /\ \A f \in FramesOf(h) :
             /\ frames[f].pc = "provider" => cache[h].st = "pending"
             /\ frames[f].pc = "cacheGet" => cache[h].st # "absent"
             /\ frames[f].st = "ok" => cache[h].st = "ok" /\ frames[f].res = cache[h].res
       /\ cache[h].st = "pending" =>
             Cardinality({f \in FramesOf(h) : frames[f].pc = "provider"}) = 1

C2_Witness ==
    \E h \in Handles : \E f, g \in FramesOf(h) :
       /\ frames[f].pc = "provider"
       /\ frames[g].pc = "cacheGet"
       /\ cache[h].st = "pending"

\* the state part of C3: after a failed provider operation the cache entry of
\* the handle is rejected with its error, and so is every settled reference
C3_FailureInv ==
    \A h \in Handles : \A f \in FramesOf(h) :
       (frames[f].from = "provider" /\ frames[f].st = "err") =>
          /\ cache[h].st = "err" /\ cache[h].err = frames[f].err
          /\ invoked[h] = 1
          /\ \A g \in FramesOf(h) :
                frames[g].pc = "done" => frames[g].st = "err" /\ frames[g].err = frames[f].err

\* C3: once a provider operation failed, the cache entry of its handle stays
\* rejected with that error for the rest of the pass, every reference to the
\* handle that settles is rejected with the same error, and the provider is
\* not invoked again.
C3_RejectionNotEvicted ==
    /\ []C3_FailureInv
    /\ [][\A h \in Handles : cache[h].st = "err" =>
             cache'[h] = cache[h] /\ invoked'[h] = invoked[h]]_vars

C3_Witness ==
    \E h \in Handles : \E f, g \in FramesOf(h) :
       /\ frames[f].from = "provider" /\ frames[f].st = "err"
       /\ frames[g].from = "cacheGet" /\ frames[g].st = "err"
       /\ frames[g].err = frames[f].err

\* C4: a provider operation is invoked only after every declared input was
\* fully evaluated: the awaited evaluations of the inputs have all resolved,
\* and every provider operation the inputs transitively depend on has
\* completed successfully.
C4_InputsBeforeProvider ==
    \A h \in Handles :
       /\ invoked[h] > 0 => \A g \in Reach(h) \ {h} : cache[g].st = "ok"
       /\ \A f \in FramesOf(h) :
             frames[f].pc = "provider" \/ frames[f].from = "provider" =>
                \A c \in Children(f) : frames[c].st = "ok"

C4_Witness == invoked["D"] = 1 /\ cache["E"].st = "ok" /\ cache["A"].st = "ok"

\* C5: the dependency set of every evaluated value is closed: an array or a
\* mapping has the union of its children's sets, a primitive the empty set,
\* a handle its own identity together with the union of its inputs' sets.
ChildDeps(f) == UNION {Range(frames[c].res.deps) : c \in Children(f)}

C5_DependencyClosure ==
    \A f \in Fids :
       frames[f].st = "ok" =>
          LET k == NodeDef(frames[f].node).kind
              ds == Range(frames[f].res.deps)
          IN /\ k \in {"arr", "obj"} => ds = ChildDeps(f)
             /\ k = "prim" => frames[f].res.deps = <<>>
             /\ k = "res" => ds = {ResourceID(frames[f].node)} \cup ChildDeps(f)

C5_Witness ==
    /\ frames[1].st = "ok"
    /\ top = "TO"
    /\ Range(frames[1].res.deps) = {"d", "a", "e"}
    /\ \E f \in FramesOf("D") : frames[f].from = "cacheGet" /\ frames[f].st = "ok"

\* every evaluate call of the pass has settled
Quiescent == \A f \in Fids : frames[f].pc = "done"

\* C6: in the graph {A, B (depends on A), C (independent, fails)} the pass
\* and C are rejected, A and B are still invoked once and resolve whatever
\* the interleaving with C's failure, and no record is written for C.
C6_FailureIsolation ==
    (top = "TG" /\ fails = {"C"}) =>
       /\ frames[1].st # "ok"
       /\ cache["C"].st \notin {"ok"}
       /\ {r \in records : r.id = "c"} = {r \in prior : r.id = "c"}
       /\ Quiescent =>
             /\ frames[1].st = "err" /\ frames[1].err = "C"
             /\ cache["C"].st = "err"
             /\ \A h \in {"A", "B"} :
                   /\ invoked[h] = 1
                   /\ cache[h].st = "ok"
                   /\ Recorded(ResourceID(h))

C6_Witness ==
    /\ top = "TG" /\ fails = {"C"} /\ prior = {}
    /\ Quiescent
    /\ completion = <<"A", "B">>
    /\ RecordIds(records) = {"a", "b"}
    /\ frames[1].st = "err"

\* C7: when a provider operation failed, every evaluation that depends on
\* its handle is rejected (never resolved), and the provider operation of a
\* handle that has the failed handle among its transitive inputs is never
\* invoked in the pass.
C7_FailurePropagates ==
    \A g \in Handles :
       cache[g].st = "err" =>
          /\ \A h \in Handles :
                g \in Reach(h) \ {h} => invoked[h] = 0 /\ cache[h].st = "absent"
          /\ \A f \in Fids :
                g \in Reach(frames[f].node) =>
                   /\ frames[f].st # "ok"
                   /\ frames[f].pc = "done" => frames[f].st = "err"

C7_Witness ==
    /\ top = "TO"
    /\ cache["E"].st = "err"
    /\ Quiescent
    /\ invoked["D"] = 0
    /\ \A f \in FramesOf("D") \cup FramesOf("O") \cup {1} :
          frames[f].st = "err" /\ frames[f].err = "E"

\* C8: evaluating a sequence yields a sequence of the same length whose
\* position i holds the evaluated value of element i, whatever the order in
\* which the elements' provider operations complete.
C8_OrderPreservation ==
    \A f \in Fids :
       (NodeDef(frames[f].node).kind = "arr" /\ frames[f].st = "ok") =>
          LET items == NodeDef(frames[f].node).items
              v == frames[f].res.value
          IN /\ v.t = "arr"
             /\ Len(v.items) = Len(items)
             /\ \A i \in 1..Len(items) :
                   /\ v.items[i] = frames[Child(f, i)].res.value
                   /\ isResource(items[i]) => v.items[i] = ProviderResult(items[i], 1)

C8_Witness ==
    /\ top = "TG"
    /\ frames[1].st = "ok"
    /\ completion = <<"C", "A", "B">>
    /\ frames[1].res.value.items =
          <<ProviderResult("A", 1), ProviderResult("B", 1), ProviderResult("C", 1)>>

\* C9: forcing an Output resolves its parent first, only then applies the
\* transformation to the parent's value, then evaluates what the
\* transformation returned (an Output or a handle included); its dependency
\* set is the parent's united with that of the transformation's result.
HasRet(f) == \E c \in Fids : frames[c].par = f /\ frames[c].slot = 2

C9_OutputSequencing ==
    \A o \in Outputs :
       /\ fnCalls[o] = Cardinality({f \in FramesOf(o) : HasRet(f)})
       /\ \A f \in FramesOf(o) :
             /\ (frames[f].pc = "parent" \/ frames[f].from = "parent") => ~HasRet(f)
             /\ (frames[f].pc = "ret" \/ frames[f].from = "ret") =>
                   /\ HasRet(f)
                   /\ frames[Child(f, 1)].st = "ok"
                   /\ frames[Child(f, 2)].node = FnRet(o)
                   /\ NodeDef(o).fn = "map" =>
                         frames[Child(f, 2)].res.value = Mapped(o, frames[Child(f, 1)].res.value)
             /\ frames[f].st = "ok" =>
                   /\ frames[Child(f, 2)].st = "ok"
                   /\ frames[f].res.value = frames[Child(f, 2)].res.value
                   /\ Range(frames[f].res.deps) =
                         Range(frames[Child(f, 1)].res.deps) \cup Range(frames[Child(f, 2)].res.deps)

C9_Witness ==
    /\ \E f \in FramesOf("OC") :
          /\ frames[f].st = "ok"
          /\ frames[f].res.value = Mapped("OM", ProviderResult("B", 1))
          /\ Range(frames[f].res.deps) = {"a", "b"}

\* C10: the phase handed to a provider operation is decided by the persisted
\* record: an evaluated id with no prior record runs in phase create, one
\* with a prior record in phase update, and phase delete is used for the
\* prior records the pass did not touch, at finalize time, and in no other
\* case.
PriorIds == RecordIds(prior)

DeclaredIds(n) == {ResourceID(h) : h \in Reach(n)}

DeleteCalls == {c \in calls : c.phase = "delete"}

\* C11: a resource whose provider operation failed in phase create leaves no
\* record, so the next pass invokes the same id with phase create again and
\* never with update.
C11_FailedCreateRetried ==
    /\ \A id \in failedCreate : ~Recorded(id)
    /\ \A id \in prev.failedCreate :
          /\ id \notin PriorIds
          /\ \A c \in calls : (c.id = id /\ c.handle # "") => c.phase = "create"

C11_Witness ==
    /\ run = 2
    /\ "b" \in prev.failedCreate
    /\ [handle |-> "B", id |-> "b", phase |-> "create", deps |-> <<"a">>,
        inputs |-> <<ProviderResult("A", 1)>>] \in calls
    /\ cache["B"].st = "ok"

\* C12: finalize invokes the delete phase for exactly the orphans, the ids
\* the previous run recorded that the current run does not declare: after a
\* run that created {a, b}, a run that declares only A deletes b and not a.
C12_ExactlyOrphansDeleted ==
    /\ \A c \in DeleteCalls : c.id \in PriorIds \ DeclaredIds(top)
    /\ stage = "done" => {c.id : c \in DeleteCalls} = PriorIds \ DeclaredIds(top)
    /\ (prev.top = "TB" /\ PriorIds = {"a", "b"} /\ top = "TA" /\ stage = "done") =>
          {c.id : c \in DeleteCalls} = {"b"}

C12_Witness ==
    /\ run = 2
    /\ prev.top = "TB" /\ prev.finalized
    /\ PriorIds = {"a", "b"}
    /\ top = "TA"
    /\ stage = "done"
    /\ {c.id : c \in DeleteCalls} = {"b"}
    /\ RecordIds(records) = {"a"}

\* C13: when the top-level evaluation of a run fails, finalize is not run for
\* that run, no orphan's delete operation is invoked, and every previously
\* recorded resource keeps its record.
C13_NoFinalizeAfterFailure ==
    (frames[1].st = "err" \/ \E h \in Handles : cache[h].st = "err") =>
       /\ stage = "eval"
       /\ DeleteCalls = {}
       /\ Started = {}
       /\ \A id \in PriorIds : Recorded(id)

C13_Witness ==
    /\ top = "TS" /\ fails = {"C"}
    /\ PriorIds = {"a", "e", "d"}
    /\ frames[1].st = "err"
    /\ Quiescent
    /\ RecordIds(records) = {"a", "b", "e", "d"}

C16_DeletedInv ==
    /\ \A id \in deleted :
          /\ ~Recorded(id)
          /\ id \notin deleting
          /\ {c \in calls : c.id = id} \subseteq DeleteCalls
          /\ Cardinality({c \in calls : c.id = id}) = 1
    /\ \A id \in failed : Recorded(id) /\ RecordOf(id) \in records

\* C16: a successful delete removes the persisted record and is terminal: no
\* further provider invocation for that id happens in the run; a failed
\* delete leaves the record in place.
C16_DeleteTerminal ==
    /\ []C16_DeletedInv
    /\ [][\A id \in deleted :
             /\ id \in deleted'
             /\ {c \in calls' : c.id = id} = {c \in calls : c.id = id}
             /\ {r \in records' : r.id = id} = {}]_vars

C16_Witness ==
    /\ stage = "done"
    /\ "d" \in deleted
    /\ "e" \in failed
    /\ RecordIds(records) = {"a", "b", "c", "e"}

\* C18: re-running an unchanged graph against the records of a run that
\* finalized invokes each resource of the graph once with phase update, and
\* none with create or delete.
C18_IdempotentRerun ==
    (run > 1 /\ prev.top = top /\ prev.finalized /\ prev.failedDelete = {}) =>
       /\ PriorIds = DeclaredIds(top)
       /\ \A c \in calls : c.phase = "update"
       /\ \A h \in Handles : invoked[h] <= 1
       /\ stage = "done" => \A h \in Reach(top) : invoked[h] = 1

C18_Witness ==
    /\ run = 2
    /\ prev.top = "TG" /\ top = "TG" /\ prev.finalized
    /\ stage = "done"
    /\ {c.id : c \in calls} = {"a", "b", "c"}
    /\ \A c \in calls : c.phase = "update"

\* C19: evaluating a keyed mapping yields a mapping with exactly the same
\* keys in which each value is replaced by its evaluated value; all entries
\* are evaluated concurrently (every entry's evaluation is started before
\* the mapping waits).
C19_MappingShape ==
    \A f \in Fids :
       NodeDef(frames[f].node).kind = "obj" =>
          LET d == NodeDef(frames[f].node)
              v == frames[f].res.value
          IN /\ Cardinality(Children(f)) = Len(d.items)
             /\ \A i \in 1..Len(d.items) : frames[Child(f, i)].node = d.items[i]
             /\ frames[f].st = "ok" =>
                   /\ v.t = "obj"
                   /\ v.keys = d.keys
                   /\ Len(v.items) = Len(d.keys)
                   /\ \A i \in 1..Len(d.keys) : v.items[i] = frames[Child(f, i)].res.value

C19_Witness ==
    /\ top = "TM"
    /\ frames[1].st = "ok"
    /\ frames[1].res.value =
          ObjVal(<<"k", "l", "m">>,
                 <<Mapped("OM", ProviderResult("B", 1)), ProviderResult("C", 1), PrimVal("v1")>>)

\* the graph of the run holds two distinct handles with the same id
HasDuplicateIds ==
    \E g, h \in Reach(top) : g # h /\ ResourceID(g) = ResourceID(h)

\* C17: two distinct handles with the same id in one scope are a
\* configuration error: the pass aborts before any provider operation runs,
\* and the two handles are never both applied.
C17_DuplicateIdAborts ==
    HasDuplicateIds =>
       /\ calls = {}
       /\ ~(invoked["C"] > 0 /\ invoked["F"] > 0)
       /\ frames[1].st # "ok"

(***************************************************************************)
(* Properties of the filesystem-backed providers.                          *)
(***************************************************************************)
\* the removal call of a delete found the target already absent
FsAbsentOnDelete == fsys.phase = "delete" /\ fsys.removal = "ENOENT"

\* the state part of C20: no provider rests on a thrown error after its
\* removal call found the target absent
C20_AbsentInv ==
    (FsAbsentOnDelete /\ fsys.pc \in FsResting) =>
       /\ fsys.pc = "destroyed"
       /\ fsys.error = ""
       /\ fsys.target = "absent"

\* C20: in delete phase File, Folder, TypeScriptFile and ShadcnComponent treat
\* ENOENT from the removal call as success: the error is not thrown and the
\* provider completes with destroy().
C20_AbsentTargetIsSuccess ==
    /\ []C20_AbsentInv
    /\ [][(fsys.pc = "settle" /\ FsAbsentOnDelete) =>
             (fsys'.pc = "destroyed" /\ fsys'.error = "")]_vars

C20_Witness ==
    /\ fsys.kind = "TypeScriptFile"
    /\ fsys.n = 2
    /\ FsAbsentOnDelete
    /\ fsys.pc = "destroyed"
    /\ fsys.target = "absent"

(***************************************************************************)
(* Properties of the provider invocation and of rejection.                 *)
(***************************************************************************)
\* the provider operation of frame f has been invoked
Invoking(f) ==
    \/ frames[f].pc = "provider"
    \/ frames[f].pc = "done" /\ frames[f].from = "provider"

\* C22: the provider operation of a resource is invoked with the resource
\* handle, a dependency set equal to the union of its evaluated inputs'
\* dependency sets (the resource's own identity not among them), and the
\* evaluated input values in declared input order.
C22_ProviderArguments ==
    /\ \A c \in calls :
          c.handle # "" =>
             /\ c.id = ResourceID(c.handle)
             /\ Range(c.deps) = {ResourceID(g) : g \in Reach(c.handle) \ {c.handle}}
             /\ c.id \notin Range(c.deps)
             /\ Len(c.inputs) = Len(Input(c.handle))
    /\ \A f \in Fids :
          Invoking(f) =>
             \E c \in calls :
                /\ c.handle = frames[f].node
                /\ c.deps = frames[f].deps
                /\ Range(c.deps) =
                      UNION {Range(frames[k].res.deps) : k \in Children(f)}
                /\ \A i \in 1..Len(Input(c.handle)) :
                      c.inputs[i] = frames[Child(f, i)].res.value

C22_Witness ==
    \E c \in calls :
       /\ c.handle = "D"
       /\ Range(c.deps) = {"a", "e"}
       /\ c.inputs = <<ProviderResult("A", 1), ProviderResult("E", 1)>>

\* the reason of the first rejection among the evaluations frame f awaits
FirstRejection(f) == frames[f].err

\* the state part of C23: an evaluation rejected by Promise.all carries the
\* first failure and no result, and every provider operation that was
\* invoked has run to completion when the pass is over
C23_RejectionInv ==
    /\ \A f \in Fids :
          (frames[f].st = "err" /\ frames[f].from = "inputs") =>
             /\ frames[f].res = NoRes
             /\ \E c \in Children(f) : frames[c].st = "err" /\ frames[c].err = frames[f].err
    /\ \A f \in Fids : \A c, d \in Children(f) :
          (frames[f].pc = "inputs" /\ frames[c].st = "err" /\ frames[d].st = "pending") =>
             FirstRejection(f) # ""
    /\ Quiescent =>
          \A h \in Handles :
             invoked[h] = 1 => cache[h].st = (IF h \in fails THEN "err" ELSE "ok")

\* C23: when one awaited element fails, the enclosing evaluation rejects
\* with that first failure without waiting for its siblings; the provider
\* operations of siblings already in flight are not cancelled, they settle
\* by their own outcome, and a rejected evaluation never returns a result.
C23_FirstFailureRejects ==
    /\ []C23_RejectionInv
    /\ [][\A f \in Fids :
             /\ (frames[f].pc = "inputs" /\ FirstRejection(f) # "") =>
                   (frames'[f].pc = "done" =>
                       frames'[f].st = "err" /\ frames'[f].err = FirstRejection(f))
             /\ frames[f].pc = "provider" =>
                   \/ frames'[f] = frames[f]
                   \/ /\ frames'[f].pc = "done"
                      /\ frames'[f].st = (IF frames[f].node \in fails THEN "err" ELSE "ok")
             /\ frames[f].st = "err" => frames'[f] = frames[f]]_vars

C23_Witness ==
    /\ top = "TG" /\ fails = {"C"}
    /\ frames[1].st = "err" /\ frames[1].err = "C"
    /\ \E f \in FramesOf("A") : frames[f].pc = "provider"
    /\ cache["A"].st = "pending"

Issues(c) == lambda'.cmds = Append(lambda.cmds, c)

InCreateLoop == lambda.pc \in {"create", "backoff"}

\* C24: in delete phase the Function provider treats
\* ResourceNotFoundException from DeleteFunction as success and completes
\* with destroy(); any other DeleteFunction error is propagated.
C24_DeleteAbsentIsSuccess ==
    [][(lambda.pc = "delete" /\ lambda'.pc # "delete") =>
          /\ Issues("DeleteFunction")
          /\ lambda'.last.name \in {"", "ResourceNotFoundException"} =>
                lambda'.pc = "destroyed" /\ lambda'.error = ""
          /\ lambda'.last.name \notin {"", "ResourceNotFoundException"} =>
                lambda'.pc = "thrown" /\ lambda'.error = lambda'.last.name]_vars

C24_Witness ==
    /\ lambda.phase = "delete"
    /\ lambda.pc = "destroyed"
    /\ lambda.last.name = "ResourceNotFoundException"
    /\ lambda.cmds = <<"DeleteFunction">>

\* the state part of C25: CreateFunction is only attempted while the
\* function does not exist, and a create-phase invocation that found the
\* function returns without having issued a command
C25_CreateInv ==
    /\ InCreateLoop => ~lambda.exists
    /\ (lambda.phase = "create" /\ lambda.found /\ lambda.pc \in {"details", "returned"}) =>
          lambda.cmds = <<>>

\* C25: outside delete phase CreateFunction is issued only after the
\* existence check or an update step reported ResourceNotFoundException;
\* when the function exists and the phase is create, no create and no update
\* command is issued and the existing function's details are returned, so a
\* create re-invoked after a partially successful attempt creates no second
\* function.
C25_CreateOnlyWhenAbsent ==
    /\ []C25_CreateInv
    /\ [][/\ (~InCreateLoop /\ lambda'.pc = "create") =>
                /\ lambda.pc \in {"get", "wait", "code", "config"}
                /\ lambda'.last.name = "ResourceNotFoundException"
          /\ Issues("CreateFunction") => lambda.pc = "create" /\ ~lambda.exists
          /\ (lambda.pc = "get" /\ lambda.phase = "create" /\ lambda'.pc # "get"
                 /\ lambda'.last.name = "") =>
                lambda'.pc = "details" /\ lambda'.cmds = <<>>]_vars

C25_Witness ==
    /\ lambda.n = 2
    /\ lambda.created = 1
    /\ lambda.phase = "create"
    /\ lambda.pc = "returned"
    /\ lambda.cmds = <<>>
    /\ lambda.exists

\* the first two parts of C26: the code update follows an observation of the
\* stable function, the configuration update follows the code update and an
\* observation of the stable function after it
UpdatesSequenced ==
    /\ Issues("UpdateFunctionCode") =>
          /\ lambda.cmds = <<>>
          /\ lambda.observed = Config("Active", "Successful")
    /\ Issues("UpdateFunctionConfiguration") =>
          /\ lambda.cmds = <<"UpdateFunctionCode">>
          /\ lambda.observed = Config("Active", "Successful")

\* the provider goes on to fetch the details it returns
ToDetails == lambda.pc # "details" /\ lambda'.pc = "details"

UpdatedBeforeDetails ==
    /\ lambda.cmds = <<"UpdateFunctionCode", "UpdateFunctionConfiguration">>
    /\ lambda'.observed = Config("Active", "Successful")

\* C26 as claimed: in update phase for an existing function
\* UpdateFunctionCode is issued only after the function was observed stable,
\* UpdateFunctionConfiguration only after the code update has stabilised, and
\* the details are returned only after the configuration update has
\* stabilised.
C26_UpdateSequenced ==
    [][/\ UpdatesSequenced
       /\ (lambda.phase = "update" /\ lambda.found /\ ToDetails) => UpdatedBeforeDetails]_vars

\* C26 amended: as claimed, unless a step after the existence check reported
\* ResourceNotFoundException: the function is then created anew and its
\* details are returned without a further update.
C26_UpdateSequencedWhilePresent ==
    [][/\ UpdatesSequenced
       /\ (lambda.phase = "update" /\ lambda.found /\ ToDetails
              /\ "CreateFunction" \notin Range(lambda.cmds)) => UpdatedBeforeDetails
       /\ (lambda.phase = "update" /\ lambda.found /\ ToDetails
              /\ "CreateFunction" \in Range(lambda.cmds)) =>
             /\ lambda.cmds[Len(lambda.cmds)] = "CreateFunction"
             /\ lambda.pc = "active"]_vars

C26_Witness ==
    /\ lambda.phase = "update"
    /\ lambda.pc = "returned"
    /\ lambda.cmds = <<"UpdateFunctionCode", "UpdateFunctionConfiguration">>
    /\ lambda.observed = Config("Active", "Successful")

\* C27: waitForFunctionStabilization returns only after observing State
\* Active and LastUpdateStatus Successful, throws when it observes State
\* Failed or LastUpdateStatus Failed, and polls again in every other observed
\* state.
C27_StabilizationWait ==
    [][/\ (lambda.pc = "wait" /\ lambda'.pc # "wait") =>
             /\ lambda'.pc \in {lambda.ret, "thrown", "create", "waitSleep"}
             /\ lambda'.pc = lambda.ret =>
                   /\ lambda.config = Config("Active", "Successful")
                   /\ lambda'.observed = lambda.config
             /\ (lambda'.last.name = "" /\ "Failed" \in
                    {lambda.config.State, lambda.config.LastUpdateStatus}) =>
                   lambda'.pc = "thrown" /\ lambda'.error = "Error"
             /\ (lambda'.last.name = "" /\ lambda.config # Config("Active", "Successful")
                    /\ "Failed" \notin {lambda.config.State, lambda.config.LastUpdateStatus}) =>
                   lambda'.pc = "waitSleep"
       /\ (lambda.pc = "waitSleep" /\ lambda'.pc # "waitSleep") =>
             lambda'.pc = "wait" /\ lambda'.ret = lambda.ret]_vars

C27_Witness ==
    /\ lambda.pc = "thrown"
    /\ lambda.error = "Error"
    /\ lambda.observed = Config("Active", "Failed")
    /\ lambda.cmds = <<"UpdateFunctionCode">>

\* the CreateFunction call of the step threw an error of the retried kind
RetriedKind ==
    /\ lambda'.last.name = "InvalidParameterValueException"
    /\ lambda'.last.assumable

\* C28: the CreateFunction loop retries only on
\* InvalidParameterValueException with a message containing 'cannot be
\* assumed by Lambda'; any other CreateFunction error is rethrown at once,
\* with no further attempt and no details returned.
C28_RetryOnlyRoleNotAssumable ==
    [][/\ (lambda.pc = "create" /\ Issues("CreateFunction")) =>
             /\ lambda'.pc = "backoff" => RetriedKind
             /\ (lambda'.last.name # "" /\ ~RetriedKind) =>
                   lambda'.pc = "thrown" /\ lambda'.error = lambda'.last.name
       /\ (lambda.pc = "thrown" /\ lambda' # lambda) =>
             lambda'.pc = "prelude" /\ lambda'.n = lambda.n + 1]_vars

C28_Witness ==
    /\ lambda.pc = "thrown"
    /\ lambda.last = SdkError("InvalidParameterValueException", FALSE)
    /\ lambda.error = "InvalidParameterValueException"
    /\ Len(lambda.sleeps) = 2
    /\ ~lambda.exists

\* C29: the CreateFunction loop always ends: it exits at the first
\* successful CreateFunction, rethrows at the first error that is not
\* retried, and throws the timeout error at the first retried failure
\* observed more than 10000 ms after the loop started, after which it
\* neither sleeps nor attempts CreateFunction again.
C29_CreateLoopEnds ==
    /\ [](lambda.pc = "backoff" => lambda.elapsed <= 10000)
    /\ [][/\ (lambda.pc = "create" /\ Issues("CreateFunction")) =>
                /\ lambda'.last.name = "" => lambda'.pc = "active"
                /\ (lambda'.last.name # "" /\ ~RetriedKind) => lambda'.pc = "thrown"
                /\ (RetriedKind /\ lambda'.elapsed > 10000) =>
                      lambda'.pc = "thrown" /\ lambda'.error = "Timeout"
                /\ (RetriedKind /\ lambda'.elapsed <= 10000) => lambda'.pc = "backoff"
          /\ (lambda.pc \in {"active", "thrown"} /\ lambda'.n = lambda.n) =>
                /\ lambda'.cmds = lambda.cmds
                /\ lambda'.sleeps = lambda.sleeps]_vars
    /\ InCreateLoop ~> ~InCreateLoop

C29_Witness ==
    /\ lambda.pc = "thrown"
    /\ lambda.error = "Timeout"
    /\ lambda.elapsed > 10000
    /\ Len(lambda.sleeps) >= 5

\* C30: the k-th sleep of the CreateFunction loop lasts
\* min(100 * 2^(k-1), 1000) ms: the delay starts at 100 ms, doubles after
\* each retried failure, never decreases and never exceeds 1000 ms.
C30_BackoffDelays ==
    /\ \A k \in DOMAIN lambda.sleeps :
          /\ lambda.sleeps[k] = Min(100 * 2^(k - 1), 1000)
          /\ lambda.sleeps[k] <= 1000
          /\ k > 1 => lambda.sleeps[k - 1] <= lambda.sleeps[k]
    /\ lambda.pc = "backoff" => lambda.delay = Min(100 * 2^Len(lambda.sleeps), 1000)

C30_Witness ==
    /\ Len(lambda.sleeps) = 6
    /\ lambda.sleeps[1] = 100
    /\ lambda.sleeps[4] = 800
    /\ lambda.sleeps[5] = 1000
    /\ lambda.sleeps[6] = 1000


\* C39: the Lambda Function provider never completes successfully in create
\* or update phase when the last function configuration it observed before
\* returning has State Failed
C39_FailedNeverReturned ==
    (lambda.pc = "returned" /\ lambda.phase \in {"create", "update"})
        => lambda.observed.State # "Failed"

\* the evaluations of handle h (one per path that reaches it) whose inputs
\* have all resolved
PathsPastInputs(h) == {f \in FramesOf(h) : PastInputs(f)}

\* C37: the transformation of an Output is applied once per evaluation of
\* the Output and is not memoized: a handle with an Output among its inputs
\* re-evaluates the Output on every path that reaches it, so the
\* transformation has run once for every path whose inputs resolved (N times
\* when the handle resolved on N paths) while the handle's provider
\* operation runs once.
C37_OutputNotMemoized ==
    \A h \in Handles : \A i \in DOMAIN Input(h) :
       Input(h)[i] \in Outputs =>
          LET o == Input(h)[i]
              applied == {g \in FramesOf(o) : frames[g].par \in FramesOf(h) /\ HasRet(g)}
          IN /\ invoked[h] <= 1
             /\ \A f \in PathsPastInputs(h) : Child(f, i) \in applied
             /\ fnCalls[o] >= Cardinality(PathsPastInputs(h))
             /\ (Quiescent /\ cache[h].st = "ok") =>
                   /\ invoked[h] = 1
                   /\ Cardinality(applied) = Cardinality(FramesOf(h))
                   /\ fnCalls[o] >= Cardinality(FramesOf(h))

C37_Witness ==
    /\ top = "TO"
    /\ Quiescent
    /\ Cardinality(FramesOf("D")) = 2
    /\ cache["D"].st = "ok"
    /\ invoked["D"] = 1
    /\ fnCalls["O"] = 2

\* an evaluate call is waiting on a cache entry that is still pending
WaitsOnPending == \E f \in Fids : frames[f].pc = "cacheGet" /\ cache[frames[f].node].st = "pending"

\* C38: in a finite acyclic graph whose provider operations and
\* transformations terminate, every evaluate call eventually settles
\* (resolves or rejects) and stays settled, the calls started later by a
\* transformation and the references that wait on a pending cache entry
\* included.
C38_EvaluateSettles ==
    /\ <>[]Quiescent
    /\ WaitsOnPending ~> Quiescent
    /\ [](Quiescent => \A f \in Fids : frames[f].st \in {"ok", "err"})

C38_Witness ==
    /\ Quiescent
    /\ \E f \in Fids : frames[f].from = "cacheGet" /\ frames[f].st = "err"
    /\ \E f \in Fids : frames[f].from = "cacheGet" /\ frames[f].st = "ok"
    /\ frames[1].st = "err"

(***************************************************************************)
(* Properties of the IAM Role provider.                                    *)
(***************************************************************************)
\* the policies named by the commands of kind c the invocation has issued
Named(c) == {role.cmds[k].policy : k \in {j \in DOMAIN role.cmds : role.cmds[j].cmd = c}}

\* how many commands of kind c the invocation has issued
Count(c) == Cardinality({j \in DOMAIN role.cmds : role.cmds[j].cmd = c})

\* the invocation has issued an update, tag or policy command
Modified ==
    \E k \in DOMAIN role.cmds :
       role.cmds[k].cmd \in {"UpdateAssumeRolePolicy", "UpdateRole", "TagRole",
                             "DeleteRolePolicy", "PutRolePolicy"}

\* C31: in create phase, when CreateRole reported that the role already
\* exists, the provider issues an update, tag or policy command only if the
\* tags it read from the existing role equal the current stage and resource
\* ID; when they differ it throws the EntityAlreadyExists error having issued
\* nothing but CreateRole.
C31_AdoptOnlyOwnRole ==
    (role.event = "create" /\ role.existed) =>
       LET own == /\ role.roleTags.alchemy_stage = "dev"
                  /\ role.roleTags.alchemy_resource = "my-role"
       IN /\ Modified => own
          /\ (role.pc # "check" /\ ~own) =>
                /\ role.pc = "thrown"
                /\ role.cmds = <<Cmd("CreateRole", "")>>
                /\ role.roleTags # NoTags => role.error = EAE
                /\ role.error \in {EAE, NSE, "ServiceFailureException"}

C31_Witness ==
    /\ role.event = "create"
    /\ role.existed
    /\ role.exists
    /\ role.policies # <<>>
    /\ role.roleTags = Tags("dev", "other-role")
    /\ role.pc = "thrown"
    /\ role.error = EAE

\* C32: in delete phase the provider issues DeleteRolePolicy for every
\* inline policy of props, in order, and then DeleteRole, and nothing else;
\* NoSuchEntity on any of these calls does not stop it, so it throws only
\* another error.
C32_DeletePoliciesThenRole ==
    role.event = "delete" =>
       LET n == Len(role.policies)
           expected == [k \in 1..(n + 1) |->
                          IF k <= n THEN Cmd("DeleteRolePolicy", role.policies[k].policyName)
                          ELSE Cmd("DeleteRole", "")]
       IN /\ Len(role.cmds) <= n + 1
          /\ \A k \in DOMAIN role.cmds : role.cmds[k] = expected[k]
          /\ role.pc = "returned" => role.cmds = expected
          /\ role.pc = "thrown" => role.error # NSE

C32_Witness ==
    /\ role.event = "delete"
    /\ role.pc = "returned"
    /\ Len(role.policies) = 2
    /\ role.ignored = 3
    /\ Len(role.cmds) = 3

\* C33: in update phase the provider issues DeleteRolePolicy only for the
\* policies the previous output names and props do not, PutRolePolicy only
\* for the policies of props that are new or whose document differs from the
\* previous output's, each once; when it returns it has issued exactly these,
\* and with unchanged policies it issues neither.
C33_PolicyReconciliation ==
    role.event = "update" =>
       LET names == {role.policies[k].policyName : k \in DOMAIN role.policies}
           removed == {role.previous[k].policyName : k \in DOMAIN role.previous} \ names
           changed == {role.policies[k].policyName : k \in
                         {j \in DOMAIN role.policies :
                             \A o \in DOMAIN role.previous :
                                role.previous[o].policyName = role.policies[j].policyName
                                   => role.previous[o].policyDocument # role.policies[j].policyDocument}}
       IN /\ Named("DeleteRolePolicy") \subseteq removed
          /\ Named("PutRolePolicy") \subseteq changed
          /\ Count("DeleteRolePolicy") = Cardinality(Named("DeleteRolePolicy"))
          /\ Count("PutRolePolicy") = Cardinality(Named("PutRolePolicy"))
          /\ role.pc = "returned" =>
                /\ Named("DeleteRolePolicy") = removed
                /\ Named("PutRolePolicy") = changed
          /\ role.policies = role.previous =>
                Count("DeleteRolePolicy") = 0 /\ Count("PutRolePolicy") = 0

C33_Witness ==
    /\ role.event = "update"
    /\ role.pc = "returned"
    /\ Len(role.previous) = 2
    /\ Named("DeleteRolePolicy") = {"q"}
    /\ Named("PutRolePolicy") = {"p"}
    /\ \E k \in DOMAIN role.previous : role.previous[k].policyName = "p"

(***************************************************************************)
(* Properties of the static-site router.                                   *)
(***************************************************************************)
\* fetch has returned a response that it read from KV or built itself
AnsweredOnMiss == router.pc = "answered" /\ ~router.resp.fromCache

\* C34: fetch returns the cached response only if its etag header equals
\* the manifest's current entry for the requested file path; with no cached
\* response or another etag it reads the asset from KV, the exact path
\* first, so a response whose etag differs from the current manifest is
\* never served from the cache.
C34_CacheOnlyOnEtagMatch ==
    LET entry == IF router.filePath \in router.manifest
                 THEN [tag |-> "etag", v |-> router.version]
                 ELSE [tag |-> "undefined", v |-> 0]
        match == router.r.status # 0 /\ router.r.etag = entry
    IN /\ (router.pc = "answered" /\ router.resp.fromCache) =>
             /\ match
             /\ router.resp = [router.r EXCEPT !.fromCache = TRUE]
             /\ router.tried = <<>>
       /\ (router.pc \notin {"idle", "lookup"} /\ ~match) => ~router.resp.fromCache
       /\ AnsweredOnMiss => (~match /\ router.tried # <<>> /\ router.tried[1] = router.filePath)

C34_Witness ==
    /\ router.n = 2
    /\ router.version = 2
    /\ router.r.status = 200
    /\ router.r.etag = Etag(1)
    /\ AnsweredOnMiss
    /\ router.resp.status = 200
    /\ router.resp.etag = Etag(2)

\* the answer on a cache miss when the three keys of order are read in turn:
\* 200 with the first that has a value; if none has, 404 with the error page
\* when ERROR_PAGE is configured and present, 200 with the index page when
\* ERROR_PAGE is not configured and the index page is present, and otherwise
\* the plain 404
MissAnswer(order) ==
    AnsweredOnMiss =>
       LET found == {k \in 1..3 : order[k] \in router.kv}
           first == CHOOSE k \in found : \A k2 \in found : k <= k2
       IN IF found # {}
          THEN /\ router.tried = SubSeq(order, 1, first)
               /\ router.resp.status = 200
               /\ router.resp.key = order[first]
          ELSE /\ Len(router.tried) = 4
               /\ SubSeq(router.tried, 1, 3) = order
               /\ IF router.ERROR_PAGE # <<>> /\ router.ERROR_PAGE \in router.kv
                  THEN router.resp.status = 404 /\ router.resp.key = router.ERROR_PAGE
                  ELSE IF router.ERROR_PAGE = <<>> /\ <<"index.html">> \in router.kv
                  THEN router.resp.status = 200 /\ router.resp.key = <<"index.html">>
                  ELSE router.resp.status = 404 /\ router.resp.key = <<>>

\* the requested path: the index page for an empty path
Requested == IF Tail(router.url) = <<>> THEN <<"index.html">> ELSE Tail(router.url)

\* C35 as stated: on a cache miss the router tries the exact path, then
\* path + '/index.html', then path + '.html', answers 200 with the first
\* that exists in KV, and otherwise falls back to the error page, the index
\* page or the plain 404.
C35_MissOrder ==
    MissAnswer(<<Requested, Requested \o <<"/", "index.html">>, Requested \o <<".html">>>>)

\* C35, amended: as C35, the second key being path + 'index.html' when the
\* path already ends with '/'.
C35_MissOrderNoDoubleSlash ==
    MissAnswer(<<Requested,
                 IF Requested[Len(Requested)] = "/"
                 THEN Requested \o <<"index.html">>
                 ELSE Requested \o <<"/", "index.html">>,
                 Requested \o <<".html">>>>)

C35_Witness ==
    /\ AnsweredOnMiss
    /\ router.url = <<"/", "about">>
    /\ router.tried = <<<<"about">>, <<"about", "/", "index.html">>, <<"about", ".html">>>>
    /\ router.resp.status = 200

(***************************************************************************)
(* Properties of the TypeScriptFile provider.                              *)
(***************************************************************************)
\* the text holds exactly one code block opened by a ```ts fence: a fence
\* that starts with ```ts, closed by the next fence, with no ```ts fence
\* after the closing one that is closed in its turn
ExactlyOneTsBlock(text) ==
    LET fence(i) == text[i] \in {"ts", "tsx", "js", "end"}
        block(a, b) == /\ a < b
                       /\ text[a] \in {"ts", "tsx"}
                       /\ fence(b)
                       /\ \A k \in (a + 1)..(b - 1) : ~fence(k)
        first(a, b) == block(a, b) /\ \A k \in 1..(a - 1) : text[k] \notin {"ts", "tsx"}
    IN \E a, b \in DOMAIN text :
          /\ first(a, b)
          /\ ~\E c, d \in DOMAIN text : c > b /\ block(c, d)

\* C36: TypeScriptFile calls the model at most twice per invocation, the
\* second time only after a first response that does not hold exactly one
\* ```ts code block; when the second response is invalid too it throws,
\* having neither written the target file nor removed the file at the
\* previous path; nothing is written or removed before a valid response.
C36_AtMostOneReprompt ==
    /\ tsfile.calls <= 2
    /\ Len(tsfile.texts) <= tsfile.calls
    /\ tsfile.calls = 2 => ~ExactlyOneTsBlock(tsfile.texts[1])
    /\ (Len(tsfile.texts) = 1 /\ ~ExactlyOneTsBlock(tsfile.texts[1])) =>
          /\ tsfile.pc = "retry" \/ (tsfile.pc = "thrown" /\ tsfile.calls = 2)
          /\ ~tsfile.written
          /\ ~tsfile.unlinked
    /\ (Len(tsfile.texts) = 2 /\ ~ExactlyOneTsBlock(tsfile.texts[2])) =>
          /\ tsfile.pc = "thrown"
          /\ tsfile.error = "Failed to generate valid TypeScript code"
          /\ ~tsfile.written
          /\ ~tsfile.unlinked
    /\ (tsfile.written \/ tsfile.unlinked) =>
          ExactlyOneTsBlock(tsfile.texts[Len(tsfile.texts)])

C36_Witness ==
    /\ tsfile.phase = "update"
    /\ tsfile.moved
    /\ tsfile.calls = 2
    /\ tsfile.texts = <<<<"txt">>, <<"ts", "txt", "end", "ts", "txt", "end">>>>
    /\ tsfile.pc = "thrown"
    /\ ~tsfile.written
    /\ ~tsfile.unlinked

====
